---- MODULE Spec2Model ----
(***************************************************************************)
(* Crypto Grapher: the cipher dispatch (browser-crypto.ts, its earlier     *)
(* revision, and encryption-service.ts) and the file packaging             *)
(* (browser-file-crypto.ts and its earlier revision), with the hook that   *)
(* drives file decryption.                                                 *)
(*                                                                         *)
(* A JavaScript string is a sequence of UTF-16 code units (0..65535); a    *)
(* byte buffer is a sequence of 0..255.  The platform primitives the code  *)
(* calls (TextEncoder, btoa/atob, encodeURIComponent, AES-GCM, SHA-256,    *)
(* PBKDF2, JSON) are modelled by what they do to such sequences.           *)
(***************************************************************************)
EXTENDS Integers, Sequences, FiniteSets, TLC

(***************************************************************************)
(* Outcomes of a call: a returned value, or a thrown error with its kind.  *)
(***************************************************************************)
Ok(v) ==
  [ok |-> TRUE, v |-> v, err |-> "none"]

Err(kind) ==
  [ok |-> FALSE, v |-> <<>>, err |-> kind]

(***************************************************************************)
(* Code units, surrogates, scalar values.                                  *)
(***************************************************************************)
IsHigh(u) ==
  u >= 55296 /\ u <= 56319

IsLow(u) ==
  u >= 56320 /\ u <= 57343

IsSurrogate(u) ==
  u >= 55296 /\ u <= 57343

\* The code points of a string: a high surrogate followed by a low one is one
\* supplementary code point; any other surrogate stays as it is (unpaired).
RECURSIVE ToScalars(_)
ToScalars(s) ==
  IF s = <<>> THEN <<>>
  ELSE IF Len(s) >= 2 /\ IsHigh(s[1]) /\ IsLow(s[2])
       THEN <<65536 + (s[1] - 55296) * 1024 + (s[2] - 56320)>>
            \o ToScalars(SubSeq(s, 3, Len(s)))
       ELSE <<s[1]>> \o ToScalars(Tail(s))

\* No unpaired surrogate: the strings encodeURIComponent accepts.
IsWellFormed(s) ==
  \A i \in 1..Len(ToScalars(s)) : ~IsSurrogate(ToScalars(s)[i])

\* UTF-8 bytes of one scalar value.
Utf8Of(cp) ==
  IF cp < 128 THEN <<cp>>
  ELSE IF cp < 2048 THEN <<192 + (cp \div 64), 128 + (cp % 64)>>
  ELSE IF cp < 65536
       THEN <<224 + (cp \div 4096), 128 + ((cp \div 64) % 64), 128 + (cp % 64)>>
  ELSE <<240 + (cp \div 262144), 128 + ((cp \div 4096) % 64),
         128 + ((cp \div 64) % 64), 128 + (cp % 64)>>

RECURSIVE Utf8OfAll(_)
Utf8OfAll(cps) ==
  IF cps = <<>> THEN <<>>
  ELSE Utf8Of(IF IsSurrogate(cps[1]) THEN 65533 ELSE cps[1]) \o Utf8OfAll(Tail(cps))

\* TextEncoder.encode: UTF-8, an unpaired surrogate becomes U+FFFD.
stringToArrayBuffer(str) ==
  Utf8OfAll(ToScalars(str))

\* UTF-16 code units of one scalar value.
Utf16Of(cp) ==
  IF cp < 65536 THEN <<cp>>
  ELSE <<55296 + ((cp - 65536) \div 1024), 56320 + ((cp - 65536) % 1024)>>

IsCont(b) ==
  b >= 128 /\ b <= 191

\* The length of the well-formed UTF-8 sequence that starts bytes b (0: none).
Utf8SeqLen(b) ==
  IF b = <<>> THEN 0
  ELSE IF b[1] < 128 THEN 1
  ELSE IF b[1] >= 194 /\ b[1] <= 223 /\ Len(b) >= 2 /\ IsCont(b[2]) THEN 2
  ELSE IF b[1] >= 224 /\ b[1] <= 239 /\ Len(b) >= 3 /\ IsCont(b[2]) /\ IsCont(b[3])
          /\ (b[1] = 224 => b[2] >= 160) /\ (b[1] = 237 => b[2] <= 159) THEN 3
  ELSE IF b[1] >= 240 /\ b[1] <= 244 /\ Len(b) >= 4
          /\ IsCont(b[2]) /\ IsCont(b[3]) /\ IsCont(b[4])
          /\ (b[1] = 240 => b[2] >= 144) /\ (b[1] = 244 => b[2] <= 143) THEN 4
  ELSE 0

Utf8Scalar(b, n) ==
  IF n = 1 THEN b[1]
  ELSE IF n = 2 THEN (b[1] - 192) * 64 + (b[2] - 128)
  ELSE IF n = 3 THEN (b[1] - 224) * 4096 + (b[2] - 128) * 64 + (b[3] - 128)
  ELSE (b[1] - 240) * 262144 + (b[2] - 128) * 4096 + (b[3] - 128) * 64 + (b[4] - 128)

RECURSIVE IsUtf8(_)
IsUtf8(b) ==
  b = <<>> \/ (Utf8SeqLen(b) > 0 /\ IsUtf8(SubSeq(b, Utf8SeqLen(b) + 1, Len(b))))

\* TextDecoder.decode (not fatal): a byte that starts no well-formed sequence
\* is replaced by U+FFFD.
RECURSIVE arrayBufferToString(_)
arrayBufferToString(b) ==
  IF b = <<>> THEN <<>>
  ELSE IF Utf8SeqLen(b) = 0 THEN <<65533>> \o arrayBufferToString(Tail(b))
  ELSE Utf16Of(Utf8Scalar(b, Utf8SeqLen(b)))
       \o arrayBufferToString(SubSeq(b, Utf8SeqLen(b) + 1, Len(b)))

(***************************************************************************)
(* Base64: btoa and atob.                                                  *)
(***************************************************************************)
B64Char(n) ==
  IF n < 26 THEN 65 + n
  ELSE IF n < 52 THEN 97 + (n - 26)
  ELSE IF n < 62 THEN 48 + (n - 52)
  ELSE IF n = 62 THEN 43 ELSE 47

IsB64Char(c) ==
  \/ (c >= 65 /\ c <= 90)
  \/ (c >= 97 /\ c <= 122)
  \/ (c >= 48 /\ c <= 57)
  \/ c = 43
  \/ c = 47

B64Val(c) ==
  IF c >= 65 /\ c <= 90 THEN c - 65
  ELSE IF c >= 97 /\ c <= 122 THEN c - 97 + 26
  ELSE IF c >= 48 /\ c <= 57 THEN c - 48 + 52
  ELSE IF c = 43 THEN 62 ELSE 63

RECURSIVE B64Enc(_)
B64Enc(b) ==
  IF b = <<>> THEN <<>>
  ELSE IF Len(b) = 1
       THEN <<B64Char(b[1] \div 4), B64Char((b[1] % 4) * 16), 61, 61>>
  ELSE IF Len(b) = 2
       THEN <<B64Char(b[1] \div 4), B64Char((b[1] % 4) * 16 + (b[2] \div 16)),
              B64Char((b[2] % 16) * 4), 61>>
  ELSE <<B64Char(b[1] \div 4), B64Char((b[1] % 4) * 16 + (b[2] \div 16)),
         B64Char((b[2] % 16) * 4 + (b[3] \div 64)), B64Char(b[3] % 64)>>
       \o B64Enc(SubSeq(b, 4, Len(b)))

\* btoa: a code unit above 255 is an InvalidCharacterError.
btoa(bin) ==
  IF \E i \in 1..Len(bin) : bin[i] > 255 THEN Err("InvalidCharacterError")
  ELSE Ok(B64Enc(bin))

IsAsciiSpace(c) ==
  c \in {9, 10, 12, 13, 32}

RECURSIVE StripSpace(_)
StripSpace(s) ==
  IF s = <<>> THEN <<>>
  ELSE IF IsAsciiSpace(s[1]) THEN StripSpace(Tail(s))
  ELSE <<s[1]>> \o StripSpace(Tail(s))

\* The padding atob removes: one or two "=" at the end of a multiple of four.
StripPad(s) ==
  IF Len(s) % 4 = 0 /\ Len(s) >= 2 /\ s[Len(s)] = 61 /\ s[Len(s) - 1] = 61
  THEN SubSeq(s, 1, Len(s) - 2)
  ELSE IF Len(s) % 4 = 0 /\ Len(s) >= 1 /\ s[Len(s)] = 61
       THEN SubSeq(s, 1, Len(s) - 1)
       ELSE s

RECURSIVE B64Dec(_)
B64Dec(s) ==
  IF Len(s) < 2 THEN <<>>
  ELSE IF Len(s) = 2
       THEN <<B64Val(s[1]) * 4 + (B64Val(s[2]) \div 16)>>
  ELSE IF Len(s) = 3
       THEN <<B64Val(s[1]) * 4 + (B64Val(s[2]) \div 16),
              (B64Val(s[2]) % 16) * 16 + (B64Val(s[3]) \div 4)>>
  ELSE <<B64Val(s[1]) * 4 + (B64Val(s[2]) \div 16),
         (B64Val(s[2]) % 16) * 16 + (B64Val(s[3]) \div 4),
         (B64Val(s[3]) % 4) * 64 + B64Val(s[4])>>
       \o B64Dec(SubSeq(s, 5, Len(s)))

\* atob (forgiving-base64 decode): ASCII whitespace is dropped, padding
\* removed, and a length of 1 mod 4 or a character outside the alphabet is an
\* InvalidCharacterError.
atob(s) ==
  LET t == StripPad(StripSpace(s))
  IN  IF Len(t) % 4 = 1 \/ (\E i \in 1..Len(t) : ~IsB64Char(t[i]))
      THEN Err("InvalidCharacterError")
      ELSE Ok(B64Dec(t))

(***************************************************************************)
(* Bitwise XOR of two code units (the ^ of oneTimePad).                    *)
(***************************************************************************)
RECURSIVE BitXor(_, _)
BitXor(a, b) ==
  IF a = 0 THEN b
  ELSE IF b = 0 THEN a
  ELSE 2 * BitXor(a \div 2, b \div 2) + ((a + b) % 2)

RECURSIVE SumSeq(_)
SumSeq(s) ==
  IF s = <<>> THEN 0 ELSE s[1] + SumSeq(Tail(s))

(***************************************************************************)
(* Program constants.                                                      *)
(***************************************************************************)
\* browser-crypto.ts (both revisions): const IV_LENGTH = 16
IV_LENGTH == 16

\* const SALT_LENGTH = 16
SALT_LENGTH == 16

\* generateIV of the current revision: new Uint8Array(12)
GCM_IV_BYTES == 12

\* browserDecrypt: combinedArray.slice(0, 12)
IV_SPLIT == 12

\* AES-GCM's authentication tag, in bytes (Web Crypto's default tagLength 128)
GCM_TAG_BYTES == 16

\* deriveKey(password, salt, iterations = 100000)
PBKDF2_ITERATIONS == 100000

(***************************************************************************)
(* Results of the dispatch: EncryptionResult, or the error thrown.         *)
(* err is the innermost message of the thrown Error (the callers only      *)
(* prefix it); names is the algorithm the message names, if any.  params   *)
(* is <<>> when the result carries no params, else <<params>>.  gcm holds  *)
(* the AES-GCM encryptions the call performed.  timeTaken is a wall-clock  *)
(* reading and is left out.                                                *)
(***************************************************************************)
Returned(result, algorithm, params, gcm) ==
  [ok |-> TRUE, err |-> "none", names |-> "none", result |-> result,
   algorithm |-> algorithm, params |-> params, gcm |-> gcm, cryptoKey |-> <<>>]

Thrown(err, names) ==
  [ok |-> FALSE, err |-> err, names |-> names, result |-> <<>>,
   algorithm |-> "none", params |-> <<>>, gcm |-> {}, cryptoKey |-> <<>>]

\* The CryptoKey a call imported (an observation, no field of the result).
WithKey(r, k) ==
  [r EXCEPT !.cryptoKey = <<k>>]

\* EncryptionParams: every field optional, <<>> when unset.
NoParams ==
  [mode |-> <<>>, padding |-> <<>>, iv |-> <<>>, salt |-> <<>>,
   iterations |-> <<>>, keySize |-> <<>>]

(***************************************************************************)
(* Base64 helpers of browser-crypto.ts.                                    *)
(***************************************************************************)
arrayBufferToBase64(buffer) ==
  B64Enc(buffer)

base64ToArrayBuffer(base64) ==
  IF atob(base64).ok THEN atob(base64) ELSE Err("Failed to decode Base64 string")

\* btoa(unescape(encodeURIComponent(str))): encodeURIComponent throws a
\* URIError on an unpaired surrogate.
safeBase64Encode(str) ==
  IF ~IsWellFormed(str) THEN Err("Failed to encode string to Base64")
  ELSE btoa(stringToArrayBuffer(str))

\* decodeURIComponent(escape(atob(base64))): a strict UTF-8 decoding.
safeBase64Decode(base64) ==
  IF ~atob(base64).ok \/ ~IsUtf8(atob(base64).v)
  THEN Err("Failed to decode Base64 string")
  ELSE Ok(arrayBufferToString(atob(base64).v))

\* The earlier revision's helpers throw the platform's errors unwrapped.
safeBase64Encode_r1(str) ==
  IF ~IsWellFormed(str) THEN Err("URIError")
  ELSE btoa(stringToArrayBuffer(str))

safeBase64Decode_r1(base64) ==
  IF ~atob(base64).ok THEN Err("InvalidCharacterError")
  ELSE IF ~IsUtf8(atob(base64).v) THEN Err("URIError")
  ELSE Ok(arrayBufferToString(atob(base64).v))

(***************************************************************************)
(* One-time pad.                                                           *)
(***************************************************************************)
\* let fullKey = key; while (fullKey.length < text.length) fullKey += key;
\* the loop never ends when key is empty and text is not.
KeyLoopDiverges(text, key) ==
  key = <<>> /\ text # <<>>

RECURSIVE ExtendKey(_, _, _)
ExtendKey(fullKey, key, n) ==
  IF Len(fullKey) >= n THEN fullKey ELSE ExtendKey(fullKey \o key, key, n)

XorChars(text, fullKey) ==
  [i \in 1..Len(text) |-> BitXor(text[i], fullKey[i])]

\* browser-crypto.ts, current revision: the loop runs before the validation.
oneTimePad(text, key, encrypt) ==
  IF KeyLoopDiverges(text, key) THEN Err("does not terminate")
  ELSE IF text = <<>> THEN Err("Text cannot be empty")
  ELSE IF key = <<>> THEN Err("Key cannot be empty")
  ELSE IF encrypt
       THEN safeBase64Encode(XorChars(text, ExtendKey(key, key, Len(text))))
       ELSE Ok(XorChars(text, ExtendKey(key, key, Len(text))))

\* browser-crypto.ts, earlier revision: no validation.
oneTimePad_r1(text, key, encrypt) ==
  IF KeyLoopDiverges(text, key) THEN Err("does not terminate")
  ELSE IF text = <<>> THEN (IF encrypt THEN safeBase64Encode_r1(<<>>) ELSE Ok(<<>>))
  ELSE IF encrypt
       THEN safeBase64Encode_r1(XorChars(text, ExtendKey(key, key, Len(text))))
       ELSE Ok(XorChars(text, ExtendKey(key, key, Len(text))))

\* encryption-service.ts: no validation, and btoa on the XOR result itself.
oneTimePad_svc(text, key, encrypt) ==
  IF KeyLoopDiverges(text, key) THEN Err("does not terminate")
  ELSE IF text = <<>> THEN (IF encrypt THEN btoa(<<>>) ELSE Ok(<<>>))
  ELSE IF encrypt
       THEN btoa(XorChars(text, ExtendKey(key, key, Len(text))))
       ELSE Ok(XorChars(text, ExtendKey(key, key, Len(text))))

(***************************************************************************)
(* Keys.  A digest or a derived key is represented by what it was computed *)
(* from: SHA-256 and PBKDF2 are deterministic and taken collision-free.    *)
(***************************************************************************)
generateIV(fill) ==
  [i \in 1..GCM_IV_BYTES |-> fill]

generateIV_r1(fill) ==
  [i \in 1..IV_LENGTH |-> fill]

generateSalt(fill) ==
  [i \in 1..SALT_LENGTH |-> fill]

deriveKey(password, salt, iterations) ==
  [kdf |-> "PBKDF2", material |-> stringToArrayBuffer(password), salt |-> salt,
   iterations |-> iterations]

\* Current revision: SHA-256 of the UTF-8 bytes of the key, imported raw.
importKey(key) ==
  [kdf |-> "SHA-256", material |-> stringToArrayBuffer(key), salt |-> <<>>,
   iterations |-> 0]

\* Earlier revision: PBKDF2 under a salt generated by this very call.
importKey_r1(key, saltFill) ==
  deriveKey(key, generateSalt(saltFill), PBKDF2_ITERATIONS)

(***************************************************************************)
(* AES-GCM (crypto.subtle).  Encryption is length-preserving plus the tag; *)
(* decryption returns the plaintext exactly for a (key, iv, ciphertext)    *)
(* that an encryption produced, and fails (OperationError) for any other:  *)
(* the authenticity GCM gives.                                             *)
(***************************************************************************)
GcmKeystream(k, iv, i) ==
  (SumSeq(k.material) + SumSeq(k.salt) + SumSeq(iv) + 7 * i) % 256

GcmTag(k, iv, body) ==
  [j \in 1..GCM_TAG_BYTES |-> (SumSeq(body) + SumSeq(k.material) + SumSeq(iv) + j) % 256]

subtleEncrypt(k, iv, pt) ==
  LET body == [i \in 1..Len(pt) |-> BitXor(pt[i], GcmKeystream(k, iv, i))]
  IN  body \o GcmTag(k, iv, body)

GcmEntry(k, iv, pt) ==
  [key |-> k, iv |-> iv, pt |-> pt, ct |-> subtleEncrypt(k, iv, pt)]

\* A decryption that does not verify the tag.
subtleDecryptUnverified(log, k, iv, data) ==
  Ok([i \in 1..(Len(data) - GCM_TAG_BYTES) |-> BitXor(data[i], GcmKeystream(k, iv, i))])

subtleDecrypt(log, k, iv, data) ==
  IF \E e \in log : e.key = k /\ e.iv = iv /\ e.ct = data
  THEN Ok((CHOOSE e \in log : e.key = k /\ e.iv = iv /\ e.ct = data).pt)
  ELSE Err("OperationError")

(***************************************************************************)
(* browserEncrypt / browserDecrypt, current revision.                      *)
(***************************************************************************)
browserEncrypt(text, key, algorithm, params, ivFill) ==
  IF text = <<>> THEN Thrown("Text to encrypt cannot be empty", "none")
  ELSE IF key = <<>> THEN Thrown("Encryption key cannot be empty", "none")
  ELSE IF algorithm = "OTP"
       THEN LET r == oneTimePad(text, key, TRUE)
            IN  IF r.ok THEN Returned(r.v, "OTP", <<>>, {})
                ELSE Thrown(r.err, "none")
  ELSE IF algorithm = "AES"
       THEN LET iv == generateIV(ivFill)
                e  == GcmEntry(importKey(key), iv, stringToArrayBuffer(text))
            IN  WithKey(Returned(arrayBufferToBase64(iv \o e.ct), "AES",
                                 <<[params EXCEPT !.iv = <<arrayBufferToBase64(iv)>>]>>,
                                 {e}), e.key)
  ELSE LET r == safeBase64Encode(text \o key)
       IN  IF r.ok THEN Returned(r.v, algorithm, <<params>>, {})
           ELSE Thrown(r.err, "none")

\* substring(0, n): a negative n counts as 0.
Substring0(s, n) ==
  IF n <= 0 THEN <<>> ELSE SubSeq(s, 1, IF n > Len(s) THEN Len(s) ELSE n)

browserDecrypt(ciphertext, key, algorithm, params, log) ==
  IF ciphertext = <<>> THEN Thrown("Ciphertext to decrypt cannot be empty", "none")
  ELSE IF key = <<>> THEN Thrown("Decryption key cannot be empty", "none")
  ELSE IF algorithm = "OTP"
       THEN LET d == safeBase64Decode(ciphertext)
                r == oneTimePad(d.v, key, FALSE)
            IN  IF ~d.ok THEN Thrown(d.err, "none")
                ELSE IF r.ok THEN Returned(r.v, "OTP", <<>>, {})
                ELSE Thrown(r.err, "none")
  ELSE IF algorithm = "AES"
       THEN LET buf == base64ToArrayBuffer(ciphertext)
                iv  == SubSeq(buf.v, 1, IV_SPLIT)
                dec == subtleDecrypt(log, importKey(key), iv,
                                     SubSeq(buf.v, IV_SPLIT + 1, Len(buf.v)))
                out == IF ~buf.ok THEN Thrown("Failed to decode Base64 ciphertext", "none")
                       ELSE IF Len(buf.v) <= 12
                            THEN Thrown("Invalid ciphertext length", "none")
                       ELSE IF ~dec.ok THEN Thrown("AES decryption failed", "none")
                       ELSE Returned(arrayBufferToString(dec.v), "AES",
                                     <<[params EXCEPT !.iv = <<arrayBufferToBase64(iv)>>]>>,
                                     {})
            IN  WithKey(out, importKey(key))
  ELSE LET d == safeBase64Decode(ciphertext)
       IN  IF ~d.ok THEN Thrown("Fallback decryption failed", "none")
           ELSE Returned(Substring0(d.v, Len(d.v) - Len(key)), algorithm, <<params>>, {})

(***************************************************************************)
(* browserEncrypt / browserDecrypt, earlier revision: no input validation, *)
(* a 16-byte IV, and a key derived under a fresh salt by every call.       *)
(***************************************************************************)
browserEncrypt_r1(text, key, algorithm, params, ivFill, saltFill) ==
  IF algorithm = "OTP"
  THEN LET r == oneTimePad_r1(text, key, TRUE)
       IN  IF r.ok THEN Returned(r.v, "OTP", <<>>, {}) ELSE Thrown(r.err, "none")
  ELSE IF algorithm = "AES"
       THEN LET iv == generateIV_r1(ivFill)
                e  == GcmEntry(importKey_r1(key, saltFill), iv, stringToArrayBuffer(text))
            IN  WithKey(Returned(arrayBufferToBase64(iv \o e.ct), "AES",
                                 <<[params EXCEPT !.iv = <<arrayBufferToBase64(iv)>>]>>,
                                 {e}), e.key)
  ELSE LET r == safeBase64Encode_r1(text \o key)
       IN  IF r.ok THEN Returned(r.v, algorithm, <<params>>, {})
           ELSE Thrown(r.err, "none")

browserDecrypt_r1(ciphertext, key, algorithm, params, log, saltFill) ==
  IF algorithm = "OTP"
  THEN LET d == safeBase64Decode_r1(ciphertext)
           r == oneTimePad_r1(d.v, key, FALSE)
       IN  IF ~d.ok THEN Thrown(d.err, "none")
           ELSE IF r.ok THEN Returned(r.v, "OTP", <<>>, {})
           ELSE Thrown(r.err, "none")
  ELSE IF algorithm = "AES"
       THEN LET buf == atob(ciphertext)
                iv  == SubSeq(buf.v, 1, IF Len(buf.v) < 12 THEN Len(buf.v) ELSE 12)
                dec == subtleDecrypt(log, importKey_r1(key, saltFill), iv,
                                     SubSeq(buf.v, 13, Len(buf.v)))
                out == IF ~buf.ok THEN Thrown("InvalidCharacterError", "none")
                       ELSE IF ~dec.ok THEN Thrown("OperationError", "none")
                       ELSE Returned(arrayBufferToString(dec.v), "AES",
                                     <<[params EXCEPT !.iv = <<arrayBufferToBase64(iv)>>]>>,
                                     {})
            IN  WithKey(out, importKey_r1(key, saltFill))
  ELSE LET d == safeBase64Decode_r1(ciphertext)
       IN  IF ~d.ok THEN Thrown(d.err, "none")
           ELSE Returned(Substring0(d.v, Len(d.v) - Len(key)), algorithm, <<params>>, {})

(***************************************************************************)
(* encryption-service.ts: encrypt / decrypt over CryptoJS.                 *)
(***************************************************************************)
EncryptionAlgorithm ==
  {"AES", "DES", "3DES", "Rabbit", "RC4", "ChaCha20", "OTP", "RSA", "ECC", "Blowfish"}

\* defaultParams: keySize is 256 / 32 (words).
defaultParams ==
  [mode |-> <<"CBC">>, padding |-> <<"PKCS7">>, iv |-> <<>>, salt |-> <<>>,
   iterations |-> <<1000>>, keySize |-> <<256 \div 32>>]

\* { ...defaultParams, ...params }
MergeParams(params) ==
  [f \in DOMAIN defaultParams |-> IF params[f] = <<>> THEN defaultParams[f] ELSE params[f]]

getCryptoJSMode(mode) ==
  IF mode \in {"ECB", "CBC", "CFB", "OFB", "CTR"} THEN mode ELSE "CBC"

getCryptoJSPadding(padding) ==
  IF padding \in {"NoPadding", "PKCS7", "ISO10126", "AnsiX923", "ZeroPadding"}
  THEN padding ELSE "PKCS7"

\* getCryptoConfig: only the fields that are set (and truthy); parsing the iv
\* as UTF-8 throws on an unpaired surrogate.
getCryptoConfig(params) ==
  IF params.iv # <<>> /\ params.iv # <<<<>>>> /\ ~IsWellFormed(params.iv[1])
  THEN Err("URIError")
  ELSE Ok([mode    |-> IF params.mode = <<>> THEN <<>>
                       ELSE <<getCryptoJSMode(params.mode[1])>>,
           padding |-> IF params.padding = <<>> THEN <<>>
                       ELSE <<getCryptoJSPadding(params.padding[1])>>,
           iv      |-> IF params.iv = <<<<>>>> THEN <<>> ELSE params.iv,
           salt    |-> <<>>,
           iterations |-> IF params.iterations = <<0>> THEN <<>> ELSE params.iterations,
           keySize |-> IF params.keySize = <<0>> THEN <<>> ELSE params.keySize])

\* CryptoJS with a passphrase: the key and the IV are derived from the
\* passphrase and a random 8-byte salt (cfg.iv, cfg.keySize and
\* cfg.iterations are not used; ivFrom records where the IV came from), the
\* plaintext is padded to the block size, and toString() is
\* Base64("Salted__" || salt || ciphertext).
CjsBlockBytes(algorithm) ==
  IF algorithm = "AES" THEN 16 ELSE IF algorithm \in {"DES", "3DES"} THEN 8 ELSE 1

CjsMode(cfg) ==
  IF cfg.mode = <<>> THEN "CBC" ELSE cfg.mode[1]

CjsPadding(cfg) ==
  IF cfg.padding = <<>> THEN "PKCS7" ELSE cfg.padding[1]

CjsPadded(algorithm, cfg, pt) ==
  LET bs == CjsBlockBytes(algorithm)
      n  == bs - (Len(pt) % bs)
  IN  IF bs = 1 \/ CjsPadding(cfg) = "NoPadding" THEN pt
      ELSE IF CjsPadding(cfg) = "ZeroPadding"
           THEN pt \o [i \in 1..(n % bs) |-> 0]
           ELSE pt \o [i \in 1..n |-> IF CjsPadding(cfg) = "PKCS7" \/ i = n THEN n ELSE 0]

\* Whether decrypting gives back what was padded and encrypted.
CjsLossless(algorithm, cfg, pt) ==
  \/ CjsBlockBytes(algorithm) = 1
  \/ CjsPadding(cfg) \in {"PKCS7", "AnsiX923", "ISO10126"}
  \/ CjsPadding(cfg) = "ZeroPadding" /\ (pt = <<>> \/ pt[Len(pt)] # 0)
  \/ CjsPadding(cfg) = "NoPadding"
     /\ (Len(pt) % CjsBlockBytes(algorithm) = 0 \/ CjsMode(cfg) \in {"CFB", "OFB", "CTR"})

SaltedPrefix ==
  <<83, 97, 108, 116, 101, 100, 95, 95>>

CjsSalt(fill) ==
  [i \in 1..8 |-> fill]

CjsEntry(algorithm, text, key, cfg, saltFill) ==
  LET k    == [kdf |-> "EvpKDF", material |-> stringToArrayBuffer(key),
               salt |-> CjsSalt(saltFill), iterations |-> 1]
      data == CjsPadded(algorithm, cfg, stringToArrayBuffer(text))
      body == [i \in 1..Len(data) |-> BitXor(data[i], GcmKeystream(k, <<>>, i))]
  IN  [algorithm |-> algorithm, key |-> k, mode |-> CjsMode(cfg),
       ivFrom |-> "passphrase and salt",
       padding |-> CjsPadding(cfg), pt |-> stringToArrayBuffer(text),
       lossless |-> CjsLossless(algorithm, cfg, stringToArrayBuffer(text)),
       ct |-> arrayBufferToBase64(SaltedPrefix \o CjsSalt(saltFill) \o body)]

\* CryptoJS.X.decrypt(...).toString(Utf8): the plaintext for what an
\* encryption under the same passphrase, mode and padding produced; anything
\* else decrypts to bytes that are no plaintext: "Malformed UTF-8 data" is
\* thrown, or an empty or meaningless string comes back.
CjsGarbage ==
  {Err("Malformed UTF-8 data"), Ok(<<>>), Ok(<<63>>)}

CjsDecrypt(log, algorithm, ciphertext, key, cfg) ==
  LET hit == {e \in log : /\ e.algorithm = algorithm
                          /\ e.ct = ciphertext
                          /\ e.key.material = stringToArrayBuffer(key)
                          /\ e.mode = CjsMode(cfg)
                          /\ e.padding = CjsPadding(cfg)
                          /\ e.lossless}
  IN  IF ~IsWellFormed(key) THEN {Err("URIError")}
      ELSE IF ciphertext = <<>> THEN {Ok(<<>>)}
      ELSE IF hit # {} THEN {Ok(arrayBufferToString(e.pt)) : e \in hit}
      ELSE CjsGarbage

CjsCiphers ==
  {"AES", "DES", "3DES", "Rabbit", "RC4"}

Unimplemented ==
  {"RSA", "ECC", "Blowfish", "ChaCha20"}

\* encrypt: the result carries the CryptoJS encryption performed in cjs.
encrypt(text, key, algorithm, params, saltFill) ==
  LET mergedParams == MergeParams(params)
      cfg == getCryptoConfig(mergedParams)
      e   == CjsEntry(algorithm, text, key, cfg.v, saltFill)
      otp == oneTimePad_svc(text, key, TRUE)
      ret(r, c) == [Returned(r, algorithm, <<mergedParams>>, {}) EXCEPT !.gcm = c]
  IN  IF algorithm \in CjsCiphers
      THEN IF ~cfg.ok THEN Thrown(cfg.err, "none")
           ELSE IF ~IsWellFormed(text) \/ ~IsWellFormed(key) THEN Thrown("URIError", "none")
           ELSE ret(e.ct, {e})
      ELSE IF algorithm = "OTP"
           THEN IF otp.ok THEN ret(otp.v, {}) ELSE Thrown(otp.err, "none")
      ELSE IF algorithm \in Unimplemented
           THEN Thrown("encryption is not yet implemented client-side", algorithm)
      ELSE Thrown("Unsupported encryption algorithm", algorithm)

\* decrypt: the set of results the call may give.
decrypt(ciphertext, key, algorithm, params, log) ==
  LET mergedParams == MergeParams(params)
      cfg == getCryptoConfig(mergedParams)
      bin == atob(ciphertext)
      otp == oneTimePad_svc(bin.v, key, FALSE)
      ret(r) == Returned(r, algorithm, <<mergedParams>>, {})
  IN  IF algorithm \in CjsCiphers
      THEN IF ~cfg.ok THEN {Thrown(cfg.err, "none")}
           ELSE {IF d.ok THEN ret(d.v) ELSE Thrown(d.err, "none") :
                   d \in CjsDecrypt(log, algorithm, ciphertext, key, cfg.v)}
      ELSE IF algorithm = "OTP"
           THEN IF ~bin.ok THEN {Thrown(bin.err, "none")}
                ELSE IF otp.ok THEN {ret(otp.v)} ELSE {Thrown(otp.err, "none")}
      ELSE IF algorithm \in Unimplemented
           THEN {Thrown("decryption is not yet implemented client-side", algorithm)}
      ELSE {Thrown("Unsupported decryption algorithm", algorithm)}

\* deriveKeyFromPassword(password, salt, iterations, keySize): PBKDF2.
deriveKeyFromPassword(password, salt, iterations, keySize) ==
  [key  |-> [kdf |-> "PBKDF2", material |-> stringToArrayBuffer(password),
             salt |-> stringToArrayBuffer(salt), iterations |-> iterations,
             keySize |-> keySize],
   salt |-> salt]

(***************************************************************************)
(* Key strength and recommended key size.  The scores are multiples of     *)
(* 1/64, which floating point holds exactly; they are kept in 64ths.       *)
(***************************************************************************)
\* new Set(key.split('')).size: the distinct UTF-16 code units.
UniqueChars(key) ==
  Cardinality({key[i] : i \in 1..Len(key)})

Min(a, b) ==
  IF a <= b THEN a ELSE b

\* Math.round of x / 64, for x >= 0: floor(x / 64 + 0.5).
MathRound64(x) ==
  (x + 32) \div 64

\* A measure that truncates the sum instead of rounding it.
measureKeyStrengthTruncated(key) ==
  (Min(Len(key) * 4, 64) * 40 + Min(UniqueChars(key), 64) * 60) \div 64

measureKeyStrength(key) ==
  LET uniqueChars  == UniqueChars(key)
      length       == Len(key)
      lengthScore  == Min(length * 4, 64) * 40
      entropyScore == Min(uniqueChars, 64) * 60
  IN  MathRound64(lengthScore + entropyScore)

\* A measure that takes every character of the key for a new one.
browserMeasureKeyStrengthByLength(key) ==
  MathRound64(Min(Len(key) * 4, 64) * 40 + Min(Len(key), 64) * 60)

browserMeasureKeyStrength(key) ==
  LET uniqueChars  == UniqueChars(key)
      length       == Len(key)
      lengthScore  == Min(length * 4, 64) * 40
      entropyScore == Min(uniqueChars, 64) * 60
  IN  MathRound64(lengthScore + entropyScore)

\* recommendKeySize: `return 256 / 8; // 256 bits`, and so on.
recommendKeySize(algorithm) ==
  CASE algorithm = "AES"      -> 256 \div 8
    [] algorithm = "DES"      -> 64 \div 8
    [] algorithm = "3DES"     -> 192 \div 8
    [] algorithm = "Rabbit"   -> 128 \div 8
    [] algorithm = "RC4"      -> 256 \div 8
    [] algorithm = "OTP"      -> 512 \div 8
    [] algorithm = "RSA"      -> 2048 \div 8
    [] algorithm = "ECC"      -> 256 \div 8
    [] algorithm = "Blowfish" -> 448 \div 8
    [] algorithm = "ChaCha20" -> 256 \div 8
    [] OTHER                  -> 256 \div 8

(***************************************************************************)
(* page.tsx: the POST route for the algorithms the browser lacks.  The     *)
(* response is a result (status 200) or an error (400, 500).               *)
(***************************************************************************)
\* 'ChaCha20 encryption is not yet implemented'
ChaCha20Placeholder ==
  <<67, 104, 97, 67, 104, 97, 50, 48, 32, 101, 110, 99, 114, 121, 112, 116,
    105, 111, 110, 32, 105, 115, 32, 110, 111, 116, 32, 121, 101, 116, 32,
    105, 109, 112, 108, 101, 109, 101, 110, 116, 101, 100>>

\* 'RSA requires separate key generation and is not implemented in this demo'
RSAPlaceholder ==
  <<82, 83, 65, 32, 114, 101, 113, 117, 105, 114, 101, 115, 32, 115, 101,
    112, 97, 114, 97, 116, 101, 32, 107, 101, 121, 32, 103, 101, 110, 101,
    114, 97, 116, 105, 111, 110, 32, 97, 110, 100, 32, 105, 115, 32, 110,
    111, 116, 32, 105, 109, 112, 108, 101, 109, 101, 110, 116, 101, 100, 32,
    105, 110, 32, 116, 104, 105, 115, 32, 100, 101, 109, 111>>

\* 'ECC requires separate key generation and is not implemented in this demo'
ECCPlaceholder ==
  <<69, 67, 67, 32, 114, 101, 113, 117, 105, 114, 101, 115, 32, 115, 101,
    112, 97, 114, 97, 116, 101, 32, 107, 101, 121, 32, 103, 101, 110, 101,
    114, 97, 116, 105, 111, 110, 32, 97, 110, 100, 32, 105, 115, 32, 110,
    111, 116, 32, 105, 109, 112, 108, 101, 109, 101, 110, 116, 101, 100, 32,
    105, 110, 32, 116, 104, 105, 115, 32, 100, 101, 109, 111>>

POST(text, key, algorithm, action, log, saltFill) ==
  LET e == CjsEntry("AES", text, key, NoParams, saltFill)
      said(r) == {Returned(r, algorithm, <<>>, {})}
  IN  IF text = <<>> \/ key = <<>> THEN {Thrown("Missing required parameters", "none")}
      ELSE IF algorithm = "ChaCha20" THEN said(ChaCha20Placeholder)
      ELSE IF algorithm = "BLOWFISH"
           THEN IF action = "encrypt"
                THEN IF ~IsWellFormed(text) \/ ~IsWellFormed(key)
                     THEN {Thrown("Internal server error", "none")}
                     ELSE {[Returned(e.ct, algorithm, <<>>, {}) EXCEPT !.gcm = {e}]}
                ELSE {IF d.ok THEN Returned(d.v, algorithm, <<>>, {})
                      ELSE Thrown("Internal server error", "none") :
                        d \in CjsDecrypt(log, "AES", text, key, NoParams)}
      ELSE IF algorithm = "RSA" THEN said(RSAPlaceholder)
      ELSE IF algorithm = "ECC" THEN said(ECCPlaceholder)
      ELSE {Thrown("Unsupported algorithm for server-side encryption", "none")}

\* What a request may name: the enum's values, and the route's own 'BLOWFISH'.
RouteAlgorithms ==
  {"ChaCha20", "BLOWFISH", "Blowfish", "RSA", "ECC", "AES"}

(***************************************************************************)
(* File packaging.  A File is its name, its MIME type, its size and its    *)
(* content; the content is given in full for a file of at most             *)
(* MaxFileBytes bytes, and by its leading bytes for a larger one (the      *)
(* functions read file.size, and treat the content uniformly).  A JSON     *)
(* text is what JSON.parse sees of it: an optional byte-order mark, and    *)
(* then nothing, something that is no JSON, or the text of a value.  A     *)
(* field a value lacks is <<>>, a field it has is <<v>>.                   *)
(***************************************************************************)
\* browser-file-crypto.ts: const CHUNK_SIZE = 5 * 1024 * 1024
CHUNK_SIZE == 5242880

\* file-encryption-service.ts: const CHUNK_SIZE = 1024 * 1024
CHUNK_SIZE_svc == 1048576

NoFile ==
  [name |-> "", type |-> "", size |-> 0 - 1, bytes |-> <<>>]

JsValue(type, metadata, data) ==
  [type |-> type, metadata |-> metadata, data |-> data]

JsonText(lead, body, value) ==
  [lead |-> lead, body |-> body, value |-> value]

NoValue == JsValue("null", <<>>, <<>>)

EmptyString == JsonText("none", "empty", NoValue)

JSONstringify(value) ==
  JsonText("none", "value", value)

JSONparse(t) ==
  IF t.lead = "none" /\ t.body = "value" THEN Ok(t.value) ELSE Err("SyntaxError")

\* encryptedData.trim().replace(/^\uFEFF/, ''): whitespace and the byte-order mark go.
CleanData(t) ==
  [t EXCEPT !.lead = "none"]

\* String(undefined), as atob and string concatenation see a missing value.
Undefined ==
  <<117, 110, 100, 101, 102, 105, 110, 101, 100>>

\* !x for an optional string of code units / an optional name.
Falsy(opt) ==
  opt = <<>> \/ opt[1] = <<>>

FalsyName(opt) ==
  opt = <<>> \/ opt[1] = ""

\* Results of the file functions: what was returned or thrown, the values
\* onProgress was called with, and the calls made to the cipher dispatch.
FileReturned(envelope, result, algorithm, params, name, type, size, progress, calls, gcm) ==
  [ok |-> TRUE, err |-> "none", envelope |-> envelope, result |-> result,
   algorithm |-> algorithm, params |-> params, originalFileName |-> name,
   originalFileType |-> type, fileSize |-> size, progress |-> progress,
   calls |-> calls, gcm |-> gcm]

FileThrown(err, progress, calls) ==
  [ok |-> FALSE, err |-> err, envelope |-> EmptyString, result |-> <<>>,
   algorithm |-> <<>>, params |-> <<>>, originalFileName |-> <<>>,
   originalFileType |-> <<>>, fileSize |-> 0, progress |-> progress,
   calls |-> calls, gcm |-> {}]

DispatchCall(fn, data, key, algorithm, params) ==
  [fn |-> fn, data |-> data, key |-> key, algorithm |-> algorithm, params |-> params]

\* readAsDataURL(file), then split(',')[1].  An empty file reads as "data:"
\* on one platform (no comma: the handler fails on undefined.length) and as
\* "data:<type>;base64," on another (the empty string).
fileToBase64(file) ==
  IF file.bytes = <<>> THEN {Err("TypeError"), Ok(<<>>)}
  ELSE {Ok(B64Enc(file.bytes))}

\* 'base64,'
Base64Marker ==
  <<98, 97, 115, 101, 54, 52, 44>>

MarkerAt(s, i) ==
  i + Len(Base64Marker) - 1 <= Len(s) /\ SubSeq(s, i, i + Len(Base64Marker) - 1) = Base64Marker

\* base64String.split('base64,')[1]
AfterMarker(s) ==
  LET first == CHOOSE i \in 1..Len(s) : MarkerAt(s, i) /\ \A j \in 1..(i - 1) : ~MarkerAt(s, j)
      rest  == SubSeq(s, first + Len(Base64Marker), Len(s))
      later == {i \in 1..Len(rest) : MarkerAt(rest, i)}
  IN  IF later = {} THEN rest
      ELSE SubSeq(rest, 1, (CHOOSE i \in later : \A j \in later : i <= j) - 1)

\* A conversion that keeps the Base64 characters as the content.
base64ToFileUndecoded(base64String, fileName, mimeType) ==
  Ok([name |-> fileName, type |-> mimeType, size |-> Len(base64String),
      bytes |-> base64String])

base64ToFile(base64String, fileName, mimeType) ==
  LET rawBase64 == IF \E i \in 1..Len(base64String) : MarkerAt(base64String, i)
                   THEN AfterMarker(base64String) ELSE base64String
      bin == atob(rawBase64)
  IN  IF ~bin.ok THEN Err("Failed to convert Base64 to file")
      ELSE Ok([name |-> fileName, type |-> mimeType, size |-> Len(bin.v), bytes |-> bin.v])

DefaultType == "application/octet-stream"

\* downloadDecryptedFile: the download it triggers, of the File base64ToFile
\* made or, when base64ToFile threw, of the data URL itself.  The data URL
\* is `data:<type>;base64,<result>`; of its head only the marker is kept,
\* the part base64ToFile splits at.
downloadDecryptedFile(decryptedResult) ==
  LET result == decryptedResult.result
      type == IF FalsyName(decryptedResult.originalFileType) THEN DefaultType
              ELSE decryptedResult.originalFileType[1]
      name == IF decryptedResult.originalFileName = <<>> THEN "undefined"
              ELSE decryptedResult.originalFileName[1]
      base64Data == IF \E i \in 1..Len(result) : MarkerAt(result, i) THEN result
                    ELSE Base64Marker \o result
      made == base64ToFile(base64Data, name, type)
  IN  IF made.ok THEN Ok([href |-> "blob", download |-> name, file |-> made.v])
      ELSE Ok([href |-> "data URL", download |-> name, file |-> NoFile])

Envelope(name, type, algorithm, params, data) ==
  JSONstringify(JsValue("object",
    <<[originalFileName |-> <<name>>, originalFileType |-> <<type>>,
       algorithm |-> <<algorithm>>, params |-> <<params>>]>>, <<data>>))

\* An encryption that reports the cipher's milestone before the read's.
browserEncryptFileUnordered(file, key, algorithm, params, ivFill) ==
  IF key = <<>> THEN {FileThrown("Encryption key cannot be empty", <<>>, <<>>)}
  ELSE IF file.size <= CHUNK_SIZE
  THEN {LET encryptResult == browserEncrypt(fileData.v, key, algorithm, params, ivFill)
            type == IF file.type = "" THEN DefaultType ELSE file.type
            pars == IF encryptResult.params = <<>> THEN params ELSE encryptResult.params[1]
            call == DispatchCall("browserEncrypt", fileData.v, key, algorithm, params)
        IN  IF ~fileData.ok THEN FileThrown(fileData.err, <<10>>, <<>>)
            ELSE IF ~encryptResult.ok THEN FileThrown(encryptResult.err, <<10, 40>>, <<call>>)
            ELSE FileReturned(Envelope(file.name, type, algorithm, pars, encryptResult.result),
                              <<>>, <<algorithm>>, <<pars>>, <<file.name>>, <<type>>,
                              file.size, <<10, 70, 40, 100>>, <<call>>, encryptResult.gcm) :
          fileData \in fileToBase64(file)}
  ELSE {FileThrown("File too large", <<100>>, <<>>)}

\* browserEncryptFile, current revision: the results it may give.
browserEncryptFile(file, key, algorithm, params, ivFill) ==
  IF key = <<>> THEN {FileThrown("Encryption key cannot be empty", <<>>, <<>>)}
  ELSE IF file.size <= CHUNK_SIZE
  THEN {LET encryptResult == browserEncrypt(fileData.v, key, algorithm, params, ivFill)
            type == IF file.type = "" THEN DefaultType ELSE file.type
            pars == IF encryptResult.params = <<>> THEN params ELSE encryptResult.params[1]
            call == DispatchCall("browserEncrypt", fileData.v, key, algorithm, params)
        IN  IF ~fileData.ok THEN FileThrown(fileData.err, <<10>>, <<>>)
            ELSE IF ~encryptResult.ok THEN FileThrown(encryptResult.err, <<10, 40>>, <<call>>)
            ELSE FileReturned(Envelope(file.name, type, algorithm, pars, encryptResult.result),
                              <<>>, <<algorithm>>, <<pars>>, <<file.name>>, <<type>>,
                              file.size, <<10, 40, 70, 100>>, <<call>>, encryptResult.gcm) :
          fileData \in fileToBase64(file)}
  ELSE {FileThrown("File too large", <<100>>, <<>>)}

OrNoParams(opt) ==
  IF opt = <<>> THEN NoParams ELSE opt[1]

OrUndefinedName(opt) ==
  IF opt = <<>> THEN "undefined" ELSE opt[1]

\* A decryption that dispatches on the algorithm and params its caller holds.
browserDecryptFileByCaller(data, k, algorithm, params, log) ==
  LET parsed == JSONparse(CleanData(data))
      call == DispatchCall("browserDecrypt", parsed.v.data[1], k, algorithm, params)
      decryptResult == browserDecrypt(parsed.v.data[1], k, algorithm, params, log)
  IN  IF data = EmptyString \/ k = <<>> \/ ~parsed.ok \/ parsed.v.type = "null"
         \/ Falsy(parsed.v.metadata) \/ Falsy(parsed.v.data)
      THEN FileThrown("Invalid encrypted file format", <<10>>, <<>>)
      ELSE IF ~decryptResult.ok \/ decryptResult.result = <<>>
           THEN FileThrown(decryptResult.err, <<10, 30>>, <<call>>)
      ELSE FileReturned(EmptyString, decryptResult.result, <<algorithm>>, <<params>>,
                        parsed.v.metadata[1].originalFileName,
                        parsed.v.metadata[1].originalFileType,
                        Len(decryptResult.result), <<10, 30, 70, 100>>, <<call>>, {})

\* A decryption that does not look for the required metadata fields.
browserDecryptFileUnvalidated(encryptedData, key, log) ==
  LET second == JSONparse(CleanData(encryptedData))
      m == second.v.metadata[1]
      data == second.v.data
      call == DispatchCall("browserDecrypt", data[1], key, OrUndefinedName(m.algorithm),
                           OrNoParams(m.params))
      decryptResult == browserDecrypt(data[1], key, OrUndefinedName(m.algorithm),
                                      OrNoParams(m.params), log)
  IN  IF encryptedData = EmptyString \/ key = <<>> \/ ~second.ok
         \/ second.v.type = "null" \/ Falsy(second.v.metadata) \/ Falsy(data)
      THEN FileThrown("Invalid encrypted file format", <<10>>, <<>>)
      ELSE IF ~decryptResult.ok \/ decryptResult.result = <<>>
           THEN FileThrown(decryptResult.err, <<10, 30>>, <<call>>)
      ELSE FileReturned(EmptyString, decryptResult.result, m.algorithm, m.params,
                        m.originalFileName, m.originalFileType,
                        Len(decryptResult.result), <<10, 30, 70, 100>>, <<call>>, {})

\* browserDecryptFile, current revision.
browserDecryptFile(encryptedData, key, log) ==
  LET first  == JSONparse(encryptedData)
      second == JSONparse(CleanData(encryptedData))
      parsedData == IF first.ok THEN first.v ELSE second.v
      metadata == parsedData.metadata
      data == parsedData.data
      m == metadata[1]
      call == DispatchCall("browserDecrypt", data[1], key, m.algorithm[1],
                           OrNoParams(m.params))
      decryptResult == browserDecrypt(data[1], key, m.algorithm[1],
                                      OrNoParams(m.params), log)
  IN  IF encryptedData = EmptyString
      THEN FileThrown("Encrypted data cannot be empty", <<>>, <<>>)
      ELSE IF key = <<>> THEN FileThrown("Decryption key cannot be empty", <<>>, <<>>)
      ELSE IF ~first.ok /\ ~second.ok
           THEN FileThrown("Invalid encrypted file format: not valid JSON", <<10>>, <<>>)
      ELSE IF parsedData.type = "null" THEN FileThrown("TypeError", <<10>>, <<>>)
      ELSE IF Falsy(metadata) \/ Falsy(data)
           THEN FileThrown("Invalid encrypted file format: missing metadata or data",
                           <<10>>, <<>>)
      ELSE IF FalsyName(m.originalFileName) \/ FalsyName(m.algorithm)
           THEN FileThrown("Missing required metadata in encrypted file", <<10>>, <<>>)
      ELSE IF ~decryptResult.ok THEN FileThrown(decryptResult.err, <<10, 30>>, <<call>>)
      ELSE IF decryptResult.result = <<>>
           THEN FileThrown("Decryption returned empty result", <<10, 30, 70>>, <<call>>)
      ELSE FileReturned(EmptyString, decryptResult.result, m.algorithm, m.params,
                        m.originalFileName,
                        IF FalsyName(m.originalFileType) THEN <<DefaultType>>
                        ELSE m.originalFileType,
                        Len(decryptResult.result), <<10, 30, 70, 100>>, <<call>>, {})

(***************************************************************************)
(* File packaging, earlier revision: no validation, no size check.         *)
(***************************************************************************)
OrUndefined(opt) ==
  IF opt = <<>> THEN Undefined ELSE opt[1]

browserEncryptFile_r1(file, key, algorithm, params, ivFill, saltFill) ==
  LET fileData == B64Enc(file.bytes)
      encryptionResult == browserEncrypt_r1(fileData, key, algorithm, params, ivFill, saltFill)
      call == DispatchCall("browserEncrypt", fileData, key, algorithm, params)
  IN  IF ~encryptionResult.ok THEN FileThrown(encryptionResult.err, <<>>, <<call>>)
      ELSE FileReturned(Envelope(file.name, file.type, algorithm, params,
                                 encryptionResult.result),
                        <<>>, <<algorithm>>, <<params>>, <<file.name>>, <<file.type>>,
                        file.size, <<100>>, <<call>>, encryptionResult.gcm)

browserDecryptFile_r1(encryptedData, key, log, saltFill) ==
  LET parsed == JSONparse(encryptedData)
      metadata == parsed.v.metadata
      m == metadata[1]
      data == OrUndefined(parsed.v.data)
      call == DispatchCall("browserDecrypt", data, key, OrUndefinedName(m.algorithm),
                           OrNoParams(m.params))
      decryptionResult == browserDecrypt_r1(data, key, OrUndefinedName(m.algorithm),
                                            OrNoParams(m.params), log, saltFill)
  IN  IF ~parsed.ok THEN FileThrown("SyntaxError", <<>>, <<>>)
      ELSE IF parsed.v.type = "null" \/ metadata = <<>> THEN FileThrown("TypeError", <<>>, <<>>)
      ELSE IF ~decryptionResult.ok THEN FileThrown(decryptionResult.err, <<>>, <<call>>)
      ELSE FileReturned(EmptyString, decryptionResult.result, m.algorithm, m.params,
                        m.originalFileName, m.originalFileType,
                        Len(decryptionResult.result), <<100>>, <<call>>, {})

(***************************************************************************)
(* file-encryption-service.ts: CryptoJS, a ceiling of 1 MiB.               *)
(***************************************************************************)
encryptFileData(fileData, key, algorithm, saltFill) ==
  IF algorithm \notin CjsCiphers
  THEN Thrown("File encryption not supported for algorithm", algorithm)
  ELSE IF ~IsWellFormed(key) THEN Thrown("URIError", "none")
  ELSE LET e == CjsEntry(algorithm, fileData, key, NoParams, saltFill)
       IN  [Returned(e.ct, algorithm, <<>>, {}) EXCEPT !.gcm = {e}]

encryptFile(file, key, algorithm, params, saltFill) ==
  LET fileData == B64Enc(file.bytes)
      encrypted == encryptFileData(fileData, key, algorithm, saltFill)
      call == DispatchCall("CryptoJS.encrypt", fileData, key, algorithm, NoParams)
  IN  IF file.size <= CHUNK_SIZE_svc
      THEN IF ~encrypted.ok
           THEN FileThrown(encrypted.err, <<>>,
                           IF algorithm \in CjsCiphers THEN <<call>> ELSE <<>>)
           ELSE FileReturned(Envelope(file.name, file.type, algorithm, params,
                                      encrypted.result),
                             <<>>, <<algorithm>>, <<params>>, <<file.name>>, <<file.type>>,
                             file.size, <<100>>, <<call>>, encrypted.gcm)
      ELSE FileThrown("Large file encryption is not yet implemented in this browser version",
                      <<>>, <<>>)

\* decryptFile: the results it may give.
decryptFile(encryptedData, key, log) ==
  LET parsed == JSONparse(encryptedData)
      metadata == parsed.v.metadata
      m == metadata[1]
      algorithm == OrUndefinedName(m.algorithm)
      data == parsed.v.data
      call == DispatchCall("CryptoJS.decrypt", OrUndefined(data), key, algorithm, NoParams)
  IN  IF ~parsed.ok THEN {FileThrown("SyntaxError", <<>>, <<>>)}
      ELSE IF parsed.v.type = "null" \/ metadata = <<>> THEN {FileThrown("TypeError", <<>>, <<>>)}
      ELSE IF algorithm \notin CjsCiphers
           THEN {FileThrown("File decryption not supported for algorithm", <<>>, <<>>)}
      ELSE IF data = <<>> THEN {FileThrown("TypeError", <<>>, <<call>>)}
      ELSE {IF d.ok
            THEN FileReturned(EmptyString, d.v, m.algorithm, m.params, m.originalFileName,
                              m.originalFileType, Len(d.v), <<100>>, <<call>>, {})
            ELSE FileThrown(d.err, <<>>, <<call>>) :
              d \in CjsDecrypt(log, algorithm, data[1], key, NoParams)}

(***************************************************************************)
(* Text dispatch as a state machine: one call of an encrypt function on    *)
(* the input, then one call of the matching decrypt function, either on    *)
(* what encryption returned (possibly altered in transit, possibly under   *)
(* another key) or on the input itself, as the page's Decrypt button does. *)
(***************************************************************************)
(***************************************************************************)
(* State.  impl is the implementation at work; text, key, algorithm and    *)
(* params are what the caller (the page, the hook) holds; pc is how far    *)
(* the caller got; encOut / decOut and fileEncOut / fileDecOut are what    *)
(* the calls gave; wire is the ciphertext handed to decryption and wireKey *)
(* the key it is decrypted under; cipherLog holds the encryptions          *)
(* performed; file, encryptedData and hook are the state of                *)
(* useFileEncryption; restored is what base64ToFile made; page is the      *)
(* state of useEncryption besides input, key, algorithm and params; tasks  *)
(* is what a hook has started and not yet seen the end of: the promises it *)
(* awaits and the intervals it has set.                                    *)
(***************************************************************************)
VARIABLES impl, text, key, algorithm, params,
          pc, encOut, wire, wireKey, tampered, decOut, cipherLog,
          file, encryptedData, fileEncOut, fileDecOut, restored, hook, page, tasks

fileSt == <<file, encryptedData, fileEncOut, fileDecOut, restored, hook>>

textIn == <<impl, text, key, algorithm, params>>

textSt == <<pc, encOut, wire, wireKey, tampered, decOut, cipherLog>>

MaxTextLen == 2

MaxKeyLen == 2

\* "A", e-acute, the euro sign, an unpaired high surrogate.
TextChars == {65, 233, 8364, 55296}

\* "Z", an unpaired high and an unpaired low surrogate.
KeyChars == {90, 55296, 56320}

\* The bytes a random IV or salt is filled with.
RandomFill == {0, 255}

\* The bits of a byte that transit may flip.
TamperBits == {0, 7}

StringsOver(chars, n) ==
  UNION {[1..m -> chars] : m \in 0..n}

Texts == StringsOver(TextChars, MaxTextLen)

Keys == StringsOver(KeyChars, MaxKeyLen)

\* An iv a caller supplies: the Base64 text of twelve bytes 1.
CallerIV ==
  arrayBufferToBase64([i \in 1..12 |-> 1])

\* What a caller passes as params: nothing, or a mode and an iv.
ParamChoices ==
  {NoParams, [NoParams EXCEPT !.mode = <<"CFB">>, !.iv = <<CallerIV>>]}

Impls == {"browser", "browser_r1", "service", "route", "hook"}

NotCalled == Thrown("not called", "none")

FileNotCalled == FileThrown("not called", <<>>, <<>>)

\* useFileEncryption's state besides file, encryptedData, key, algorithm and
\* params: which result is set, the error (<<>> for null), the progress.
HookInit ==
  [hasEncryptionResult |-> FALSE, hasDecryptionResult |-> FALSE, error |-> <<>>,
   progress |-> 0, isEncrypting |-> FALSE, isDecrypting |-> FALSE]

\* useEncryption's state besides input, key, algorithm and params: which
\* result is set and its result string (<<>> for null, else <<string>>), the
\* error, the output shown, the progress, the busy flags, the key strength;
\* the liveTyping option; and what the calls of measureKeyStrength and
\* recommendKeySize gave (<<>>: no call).
PageInit ==
  [hasEncryptionResult |-> FALSE, hasDecryptionResult |-> FALSE, error |-> <<>>,
   displayedOutput |-> <<>>, keyStrength |-> 0,
   measured |-> <<>>, recommended |-> <<>>,
   encryptionResult |-> <<>>, decryptionResult |-> <<>>, progress |-> 0,
   isEncrypting |-> FALSE, isDecrypting |-> FALSE, liveTyping |-> FALSE]

\* useEffect(..., [key]): the key strength the hook shows for key k.
KeyStrengthEffect(k) ==
  IF k # <<>> THEN browserMeasureKeyStrength(k) ELSE 0

PageWithKey(k) ==
  [PageInit EXCEPT !.keyStrength = KeyStrengthEffect(k)]

FileIdle ==
  /\ file = NoFile
  /\ encryptedData = EmptyString
  /\ fileEncOut = FileNotCalled
  /\ fileDecOut = FileNotCalled
  /\ restored = Err("not called")
  /\ hook = HookInit

InitText ==
  /\ impl \in Impls
  /\ text \in Texts
  /\ key \in Keys
  /\ algorithm \in (IF impl = "route" THEN RouteAlgorithms ELSE EncryptionAlgorithm)
  /\ params \in ParamChoices
  /\ pc = "start"
  /\ encOut = NotCalled
  /\ decOut = NotCalled
  /\ wire = <<>>
  /\ wireKey = key
  /\ tampered = FALSE
  /\ cipherLog = {}
  /\ FileIdle
  /\ page = PageWithKey(key)
  /\ tasks = {}

\* What the caller of an encrypt function sees and does next.
EncryptSettled(r) ==
  /\ encOut' = r
  /\ cipherLog' = cipherLog \cup r.gcm
  /\ wire' = r.result
  /\ pc' = IF r.ok THEN "encrypted"
           ELSE IF r.err = "does not terminate" THEN "hung" ELSE "failed"
  /\ UNCHANGED <<wireKey, tampered, decOut>>
  /\ UNCHANGED textIn
  /\ UNCHANGED fileSt

SettleEncrypt(r) ==
  /\ EncryptSettled(r)
  /\ UNCHANGED <<page, tasks>>

DecryptSettled(r) ==
  /\ decOut' = r
  /\ pc' = IF r.err = "does not terminate" THEN "hung" ELSE "decrypted"
  /\ UNCHANGED <<encOut, wire, wireKey, tampered, cipherLog>>
  /\ UNCHANGED textIn
  /\ UNCHANGED fileSt

SettleDecrypt(r) ==
  /\ DecryptSettled(r)
  /\ UNCHANGED <<page, tasks>>

\* The ciphertext a decrypt call is given.
DecryptInput ==
  IF pc = "encrypted" THEN wire ELSE text

CallBrowserEncrypt ==
  /\ pc = "start" /\ impl = "browser"
  /\ \E ivFill \in RandomFill :
       SettleEncrypt(browserEncrypt(text, key, algorithm, params, ivFill))

CallBrowserDecrypt ==
  /\ pc \in {"start", "encrypted"} /\ impl = "browser"
  /\ SettleDecrypt(browserDecrypt(DecryptInput, wireKey, algorithm, params, cipherLog))

CallBrowserEncrypt_r1 ==
  /\ pc = "start" /\ impl = "browser_r1"
  /\ \E ivFill \in RandomFill, saltFill \in RandomFill :
       SettleEncrypt(browserEncrypt_r1(text, key, algorithm, params, ivFill, saltFill))

CallBrowserDecrypt_r1 ==
  /\ pc \in {"start", "encrypted"} /\ impl = "browser_r1"
  /\ \E saltFill \in RandomFill :
       SettleDecrypt(browserDecrypt_r1(DecryptInput, wireKey, algorithm, params,
                                       cipherLog, saltFill))

CallEncrypt ==
  /\ pc = "start" /\ impl = "service"
  /\ \E saltFill \in RandomFill :
       SettleEncrypt(encrypt(text, key, algorithm, params, saltFill))

CallDecrypt ==
  /\ pc \in {"start", "encrypted"} /\ impl = "service"
  /\ \E d \in decrypt(DecryptInput, wireKey, algorithm, params, cipherLog) :
       SettleDecrypt(d)

CallPOST ==
  /\ impl = "route"
  /\ \/ /\ pc = "start"
        /\ \E saltFill \in RandomFill :
             \E r \in POST(text, key, algorithm, "encrypt", cipherLog, saltFill) :
               SettleEncrypt(r)
     \/ /\ pc \in {"start", "encrypted"}
        /\ \E r \in POST(DecryptInput, wireKey, algorithm, "decrypt", cipherLog, 0) :
             SettleDecrypt(r)

\* handleEncrypt of useEncryption (liveTyping off), with the effect on
\* encryptionResult that shows the result.
HandleEncrypt ==
  /\ impl = "hook" /\ pc = "start"
  /\ IF text = <<>> \/ key = <<>>
     THEN /\ page' = [page EXCEPT !.error = <<"Input and key are required">>]
          /\ UNCHANGED tasks
          /\ pc' = "failed"
          /\ UNCHANGED <<encOut, wire, wireKey, tampered, decOut, cipherLog>>
          /\ UNCHANGED textIn
          /\ UNCHANGED fileSt
     ELSE \E ivFill \in RandomFill :
            LET r == browserEncrypt(text, key, algorithm, params, ivFill)
            IN  /\ EncryptSettled(r)
                /\ page' = IF r.ok
                           THEN [page EXCEPT !.hasEncryptionResult = TRUE,
                                             !.hasDecryptionResult = FALSE,
                                             !.encryptionResult = <<r.result>>,
                                             !.decryptionResult = <<>>,
                                             !.error = <<>>,
                                             !.displayedOutput = r.result,
                                             !.progress = 100]
                           ELSE [page EXCEPT !.error = <<"Encryption failed", r.err>>,
                                             !.displayedOutput = <<>>,
                                             !.progress = 0]
                /\ UNCHANGED tasks

\* handleDecrypt of useEncryption: it decrypts the input field.
HandleDecrypt ==
  /\ impl = "hook" /\ pc \in {"start", "encrypted"}
  /\ IF text = <<>> \/ key = <<>>
     THEN /\ page' = [page EXCEPT !.error = <<"Input and key are required">>]
          /\ UNCHANGED tasks
          /\ pc' = "failed"
          /\ UNCHANGED <<encOut, wire, wireKey, tampered, decOut, cipherLog>>
          /\ UNCHANGED textIn
          /\ UNCHANGED fileSt
     ELSE LET r == browserDecrypt(text, key, algorithm, params, cipherLog)
          IN  /\ DecryptSettled(r)
              /\ page' = IF r.ok
                         THEN [page EXCEPT !.hasEncryptionResult = FALSE,
                                           !.hasDecryptionResult = TRUE,
                                           !.encryptionResult = <<>>,
                                           !.decryptionResult = <<r.result>>,
                                           !.error = <<>>,
                                           !.displayedOutput = r.result,
                                           !.progress = 100]
                         ELSE [page EXCEPT !.error = <<"Decryption failed", r.err>>,
                                           !.displayedOutput = <<>>,
                                           !.progress = 0]
              /\ UNCHANGED tasks

\* setInput: the user puts the encryption's result into the input field.
SetInput ==
  /\ impl = "hook" /\ pc = "encrypted" /\ text # wire
  /\ text' = wire
  /\ UNCHANGED <<impl, key, algorithm, params>>
  /\ UNCHANGED textSt
  /\ UNCHANGED fileSt
  /\ UNCHANGED <<page, tasks>>

\* Transit flips one bit of the AES output behind the IV prefix.
FlipBit(b, bit) ==
  BitXor(b, 2 ^ bit)

Tamper ==
  /\ pc = "encrypted" /\ impl = "browser" /\ algorithm = "AES"
  /\ ~tampered /\ wireKey = key
  /\ \E p \in (IV_SPLIT + 1)..Len(atob(wire).v), bit \in TamperBits :
       wire' = arrayBufferToBase64([atob(wire).v EXCEPT ![p] = FlipBit(@, bit)])
  /\ tampered' = TRUE
  /\ UNCHANGED <<pc, encOut, wireKey, decOut, cipherLog>>
  /\ UNCHANGED textIn
  /\ UNCHANGED fileSt
  /\ UNCHANGED <<page, tasks>>

\* The AES output is decrypted under another key than it was encrypted with.
UseOtherKey ==
  /\ pc = "encrypted" /\ algorithm = "AES"
  /\ ~tampered /\ wireKey = key
  /\ \E k \in Keys \ {key} : wireKey' = k
  /\ UNCHANGED <<pc, encOut, wire, tampered, decOut, cipherLog>>
  /\ UNCHANGED textIn
  /\ UNCHANGED fileSt
  /\ UNCHANGED <<page, tasks>>

NextText ==
  \/ CallBrowserEncrypt
  \/ CallBrowserDecrypt
  \/ CallBrowserEncrypt_r1
  \/ CallBrowserDecrypt_r1
  \/ CallEncrypt
  \/ CallDecrypt
  \/ CallPOST
  \/ Tamper
  \/ UseOtherKey
  \/ HandleEncrypt
  \/ HandleDecrypt
  \/ SetInput

vars == <<impl, text, key, algorithm, params,
          pc, encOut, wire, wireKey, tampered, decOut, cipherLog,
          file, encryptedData, fileEncOut, fileDecOut, restored, hook, page, tasks>>

SpecText == InitText /\ [][NextText]_vars

TypeText ==
  /\ pc \in {"start", "encrypted", "failed", "hung", "decrypted"}
  /\ encOut.ok \in BOOLEAN
  /\ decOut.ok \in BOOLEAN

(***************************************************************************)
(* File packaging as a state machine: a file is encrypted into an envelope *)
(* and the envelope decrypted and turned back into a file, or some given   *)
(* data is decrypted; by the functions of one revision called directly,    *)
(* or through the handlers of useFileEncryption (current revision).        *)
(***************************************************************************)
MaxFileBytes == 2

MaxFileKeyLen == 1

FileBytes == {0, 255}

FileNames == {"", "a.txt"}

FileTypes == {"", "text/plain"}

\* Sizes around the two ceilings.
LargeSizes ==
  {CHUNK_SIZE_svc, CHUNK_SIZE_svc + 1, CHUNK_SIZE, CHUNK_SIZE + 1}

Files ==
  {[name |-> n, type |-> t, size |-> Len(b), bytes |-> b] :
     n \in FileNames, t \in FileTypes, b \in StringsOver(FileBytes, MaxFileBytes)}
  \cup
  {[name |-> n, type |-> t, size |-> z, bytes |-> <<77, 90>>] :
     n \in FileNames, t \in FileTypes, z \in LargeSizes}

FileKeys == StringsOver(KeyChars, MaxFileKeyLen)

\* Data given for decryption: no JSON, or JSON of null, of a number, or of
\* an object with or without metadata and data ("QQ==" or the empty string).
GivenMetadata ==
  {[originalFileName |-> n, originalFileType |-> <<"text/plain">>,
    algorithm |-> a, params |-> <<NoParams>>] :
     n \in {<<>>, <<"a.txt">>}, a \in {<<>>, <<"OTP">>}}

GivenValues ==
  {JsValue("null", <<>>, <<>>), JsValue("number", <<>>, <<>>)}
  \cup {JsValue("object", m, d) :
          m \in {<<>>} \cup {<<g>> : g \in GivenMetadata},
          d \in {<<>>, <<<<>>>>, <<<<81, 81, 61, 61>>>>}}

GivenData ==
  {JsonText(l, "junk", NoValue) : l \in {"none", "bom"}}
  \cup {JsonText("bom", "empty", NoValue)}
  \cup {JsonText(l, "value", v) : l \in {"none", "bom"}, v \in GivenValues}

FileImpls == {"browser", "browser_r1", "service", "hook"}

InitFile ==
  /\ impl \in FileImpls
  /\ key \in FileKeys
  /\ algorithm \in EncryptionAlgorithm
  /\ params \in ParamChoices
  /\ \/ file \in Files /\ encryptedData = EmptyString
     \/ file = NoFile /\ encryptedData \in GivenData
  /\ fileEncOut = FileNotCalled
  /\ fileDecOut = FileNotCalled
  /\ restored = Err("not called")
  /\ hook = HookInit
  /\ pc = "start"
  /\ cipherLog = {}
  /\ text = <<>>
  /\ encOut = NotCalled
  /\ decOut = NotCalled
  /\ wire = <<>>
  /\ wireKey = key
  /\ tampered = FALSE
  /\ page = PageWithKey(key)
  /\ tasks = {}

textSide == <<text, encOut, wire, wireKey, tampered, decOut>>

SettleFileEncrypt(r) ==
  /\ fileEncOut' = r
  /\ encryptedData' = IF r.ok THEN r.envelope ELSE encryptedData
  /\ cipherLog' = cipherLog \cup r.gcm
  /\ pc' = IF r.ok THEN "encrypted" ELSE "failed"
  /\ UNCHANGED <<impl, key, algorithm, params, file, fileDecOut, restored>>
  /\ UNCHANGED textSide
  /\ UNCHANGED <<page, tasks>>

SettleFileDecrypt(r) ==
  /\ fileDecOut' = r
  /\ pc' = "decrypted"
  /\ UNCHANGED <<impl, key, algorithm, params, file, encryptedData, fileEncOut,
                 restored, cipherLog>>
  /\ UNCHANGED textSide
  /\ UNCHANGED <<page, tasks>>

CallBrowserEncryptFile ==
  /\ impl = "browser" /\ pc = "start" /\ file # NoFile
  /\ \E ivFill \in RandomFill :
       \E r \in browserEncryptFile(file, key, algorithm, params, ivFill) :
         SettleFileEncrypt(r)
  /\ UNCHANGED hook

CallBrowserDecryptFile ==
  /\ impl = "browser" /\ pc \in {"start", "encrypted"}
  /\ SettleFileDecrypt(browserDecryptFile(encryptedData, key, cipherLog))
  /\ UNCHANGED hook

\* The earlier revisions are driven with files that have content.
CallBrowserEncryptFile_r1 ==
  /\ impl = "browser_r1" /\ pc = "start" /\ file # NoFile /\ file.bytes # <<>>
  /\ \E ivFill \in RandomFill, saltFill \in RandomFill :
       SettleFileEncrypt(browserEncryptFile_r1(file, key, algorithm, params,
                                               ivFill, saltFill))
  /\ UNCHANGED hook

CallBrowserDecryptFile_r1 ==
  /\ impl = "browser_r1" /\ pc \in {"start", "encrypted"}
  /\ \E saltFill \in RandomFill :
       SettleFileDecrypt(browserDecryptFile_r1(encryptedData, key, cipherLog, saltFill))
  /\ UNCHANGED hook

CallEncryptFile ==
  /\ impl = "service" /\ pc = "start" /\ file # NoFile /\ file.bytes # <<>>
  /\ \E saltFill \in RandomFill :
       SettleFileEncrypt(encryptFile(file, key, algorithm, params, saltFill))
  /\ UNCHANGED hook

CallDecryptFile ==
  /\ impl = "service" /\ pc \in {"start", "encrypted"}
  /\ \E r \in decryptFile(encryptedData, key, cipherLog) : SettleFileDecrypt(r)
  /\ UNCHANGED hook

\* handleEncryptFile of useFileEncryption.
HandleEncryptFile ==
  /\ impl = "hook" /\ pc = "start"
  /\ IF file = NoFile \/ key = <<>>
     THEN /\ hook' = [hook EXCEPT !.error = <<"File and key are required">>]
          /\ pc' = "failed"
          /\ UNCHANGED <<impl, key, algorithm, params, file, encryptedData, fileEncOut,
                         fileDecOut, restored, cipherLog>>
          /\ UNCHANGED textSide
          /\ UNCHANGED <<page, tasks>>
     ELSE \E ivFill \in RandomFill :
            \E r \in browserEncryptFile(file, key, algorithm, params, ivFill) :
              /\ SettleFileEncrypt(r)
              /\ hook' = IF r.ok
                         THEN [hook EXCEPT !.hasEncryptionResult = TRUE,
                                           !.hasDecryptionResult = FALSE,
                                           !.error = <<>>,
                                           !.progress = r.progress[Len(r.progress)]]
                         ELSE [hook EXCEPT !.error = <<"File encryption failed", r.err>>,
                                           !.progress = 0]

\* A handler that passes the hook's algorithm and params on to decryption.
HandleDecryptFileByHookState ==
  /\ impl = "hook" /\ pc \in {"start", "encrypted"}
  /\ encryptedData # EmptyString /\ key # <<>>
  /\ LET r == browserDecryptFileByCaller(encryptedData, key, algorithm, params, cipherLog)
     IN  /\ SettleFileDecrypt(r)
         /\ hook' = [hook EXCEPT !.hasDecryptionResult = r.ok]

\* handleDecryptFile of useFileEncryption.
HandleDecryptFile ==
  /\ impl = "hook" /\ pc \in {"start", "encrypted"}
  /\ IF encryptedData = EmptyString \/ key = <<>>
     THEN /\ hook' = [hook EXCEPT !.error = <<"Encrypted data and key are required">>]
          /\ pc' = "failed"
          /\ UNCHANGED <<impl, key, algorithm, params, file, encryptedData, fileEncOut,
                         fileDecOut, restored, cipherLog>>
          /\ UNCHANGED textSide
          /\ UNCHANGED <<page, tasks>>
     ELSE LET r == browserDecryptFile(encryptedData, key, cipherLog)
          IN  /\ SettleFileDecrypt(r)
              /\ hook' = IF r.ok
                         THEN [hook EXCEPT !.hasEncryptionResult = FALSE,
                                           !.hasDecryptionResult = TRUE,
                                           !.error = <<>>,
                                           !.progress = r.progress[Len(r.progress)]]
                         ELSE [hook EXCEPT !.error = <<"File decryption failed", r.err>>,
                                           !.progress = 0]

\* setAlgorithm / setParams of the hook, between the two handlers.
SetAlgorithm ==
  /\ impl = "hook" /\ pc = "encrypted"
  /\ <<algorithm>> = fileEncOut.algorithm
  /\ \E a \in EncryptionAlgorithm \ {algorithm}, q \in ParamChoices :
       /\ algorithm' = a
       /\ params' = q
  /\ UNCHANGED <<impl, key, pc, cipherLog>>
  /\ UNCHANGED fileSt
  /\ UNCHANGED textSide
  /\ UNCHANGED <<page, tasks>>

\* base64ToFile on what decryption returned.
CallBase64ToFile ==
  /\ pc = "decrypted" /\ fileDecOut.ok
  /\ restored' = base64ToFile(fileDecOut.result, OrUndefinedName(fileDecOut.originalFileName),
                              IF fileDecOut.originalFileType = <<>> THEN ""
                              ELSE fileDecOut.originalFileType[1])
  /\ pc' = "restored"
  /\ UNCHANGED <<impl, key, algorithm, params, file, encryptedData, fileEncOut,
                 fileDecOut, hook, cipherLog>>
  /\ UNCHANGED textSide
  /\ UNCHANGED <<page, tasks>>

\* handleDownloadDecrypted of the hook / downloadDecryptedFile on what
\* decryption returned.
DownloadDecryptedFile ==
  /\ impl \in {"browser", "hook"} /\ pc = "decrypted" /\ fileDecOut.ok
  /\ impl = "hook" => hook.hasDecryptionResult
  /\ restored' = downloadDecryptedFile(fileDecOut)
  /\ pc' = "downloaded"
  /\ UNCHANGED <<impl, key, algorithm, params, file, encryptedData, fileEncOut,
                 fileDecOut, hook, cipherLog>>
  /\ UNCHANGED textSide
  /\ UNCHANGED <<page, tasks>>

NextFile ==
  \/ CallBrowserEncryptFile
  \/ CallBrowserDecryptFile
  \/ CallBrowserEncryptFile_r1
  \/ CallBrowserDecryptFile_r1
  \/ CallEncryptFile
  \/ CallDecryptFile
  \/ HandleEncryptFile
  \/ HandleDecryptFile
  \/ SetAlgorithm
  \/ CallBase64ToFile
  \/ DownloadDecryptedFile

SpecFile == InitFile /\ [][NextFile]_vars

(***************************************************************************)
(* The key field of the page: a key is typed character by character, the   *)
(* hook shows its strength, the parameter panel the recommended key size.  *)
(* The keys are a character repeated, followed by distinct characters.     *)
(***************************************************************************)
MaxRepeat == 17

MaxUnique == 66

KeyOf(r, u) ==
  [i \in 1..(r + u - 1) |-> IF i <= r THEN 32 ELSE 32 + (i - r)]

StrengthKeys ==
  {<<>>} \cup {KeyOf(r, u) : r \in 1..MaxRepeat, u \in 1..MaxUnique}

\* The first character the key does not hold yet.
NovelChar(k) ==
  CHOOSE c \in 32..(33 + Len(k)) :
    /\ \A i \in 1..Len(k) : k[i] # c
    /\ \A d \in 32..(c - 1) : \E i \in 1..Len(k) : k[i] = d

InitKey ==
  /\ impl = "page"
  /\ key \in StrengthKeys
  /\ algorithm \in EncryptionAlgorithm
  /\ params = NoParams
  /\ text = <<>>
  /\ pc = "start"
  /\ encOut = NotCalled
  /\ decOut = NotCalled
  /\ wire = <<>>
  /\ wireKey = key
  /\ tampered = FALSE
  /\ cipherLog = {}
  /\ FileIdle
  /\ page = PageWithKey(key)
  /\ tasks = {}

keyIdle == <<impl, text, algorithm, params, encOut, wire, tampered, decOut, cipherLog>>

\* setKey(key + c) for a character c the key does not hold, and the effect
\* that follows it.
SetKey ==
  /\ impl = "page" /\ UniqueChars(key) < MaxUnique
  /\ key' = Append(key, NovelChar(key))
  /\ wireKey' = key'
  /\ page' = [page EXCEPT !.keyStrength = KeyStrengthEffect(key'), !.measured = <<>>]
  /\ UNCHANGED tasks
  /\ pc' = "key set"
  /\ UNCHANGED keyIdle
  /\ UNCHANGED fileSt

CallMeasureKeyStrength ==
  /\ impl = "page" /\ page.measured = <<>>
  /\ page' = [page EXCEPT !.measured = <<measureKeyStrength(key)>>]
  /\ UNCHANGED tasks
  /\ UNCHANGED <<key, wireKey, pc>>
  /\ UNCHANGED keyIdle
  /\ UNCHANGED fileSt

\* EncryptionParameters: const recommendedKeySize = recommendKeySize(algorithm)
RenderEncryptionParameters ==
  /\ impl = "page" /\ page.recommended = <<>>
  /\ page' = [page EXCEPT !.recommended = <<recommendKeySize(algorithm)>>]
  /\ UNCHANGED tasks
  /\ UNCHANGED <<key, wireKey, pc>>
  /\ UNCHANGED keyIdle
  /\ UNCHANGED fileSt

NextKey ==
  \/ SetKey
  \/ CallMeasureKeyStrength
  \/ RenderEncryptionParameters

SpecKey == InitKey /\ [][NextKey]_vars

(***************************************************************************)
(* The two hooks with their asynchronous work.  A step is one task of the  *)
(* event loop with the microtasks it leaves: a handler runs until it       *)
(* awaits something that completes in a later task (a FileReader, a call   *)
(* of crypto.subtle), and goes on from there in a later step; an await of  *)
(* anything else does not leave the step.  In between, other handlers, the *)
(* intervals and the file reads take their steps.  The effects a render    *)
(* triggers, with their cleanups, belong to the step that set the state.   *)
(* A button is disabled while its busy flag is set, so a handler is not    *)
(* called then (EncryptionForm.tsx 190, 520, 586).  Here pc is the user's  *)
(* last action.                                                            *)
(***************************************************************************)
HookImpls == {"useFileEncryption", "useEncryption"}

\* How many reads and file operations useFileEncryption has in flight at most.
MaxPending == 2

\* Work in flight: its kind, the outcome the awaited call will have or the
\* result an interval types (r), the number of progress values reported or
\* the interval's currentIndex (n), the numbers of progress values after
\* which the call awaits a later task (stops), and the file being read (f).
Task(kind, r, n, stops, f) ==
  [kind |-> kind, r |-> r, n |-> n, stops |-> stops, f |-> f]

TasksOf(kinds) ==
  {t \in tasks : t.kind \in kinds}

MayStart ==
  Cardinality(tasks) < MaxPending

MinOf(S) ==
  CHOOSE m \in S : \A k \in S : m <= k

\* reader.readAsText(file): the text of the bytes, as JSON.parse will see it:
\* nothing, "null", "1", "{}", or something that is no JSON.
readAsText(f) ==
  CASE f.bytes = <<>> -> EmptyString
    [] f.bytes = <<110, 117, 108, 108>> -> JsonText("none", "value", NoValue)
    [] f.bytes = <<49>> -> JsonText("none", "value", JsValue("number", <<>>, <<>>))
    [] f.bytes = <<123, 125>> -> JsonText("none", "value", JsValue("object", <<>>, <<>>))
    [] OTHER -> JsonText("none", "junk", NoValue)

\* The files the user selects: a plain one, one too large to encrypt, and
\* two encrypted ones.
HookFiles ==
  {[name |-> "a.txt", type |-> "text/plain", size |-> 1, bytes |-> <<0>>],
   [name |-> "big.bin", type |-> "", size |-> CHUNK_SIZE + 1, bytes |-> <<77, 90>>],
   [name |-> "a.txt.encrypted", type |-> "", size |-> 2, bytes |-> <<123, 125>>],
   [name |-> "b.json", type |-> "application/json", size |-> 1, bytes |-> <<49>>]}

\* newFile.name.endsWith('.encrypted') || newFile.type === 'application/json',
\* for the names of HookFiles.
LooksEncrypted(f) ==
  f.name = "a.txt.encrypted" \/ f.type = "application/json"

\* What the user pastes as encrypted data: nothing, or something that is no JSON.
PastedData ==
  {EmptyString, JsonText("none", "junk", NoValue)}

HookKeys == {<<>>, <<90>>}

HookAlgorithms == {"OTP", "AES"}

\* The bytes a random IV is filled with while the hooks are at work.
HookFill == {0}

\* What the user types as input: "A", an unpaired surrogate (which the
\* one-time pad fails on), or an AES encryption of "A".
HookInputs ==
  {<<65>>, <<55296>>, browserEncrypt(<<65>>, <<90>>, "AES", NoParams, 0).result}

InitHooks ==
  /\ impl \in HookImpls
  /\ key \in HookKeys
  /\ algorithm \in HookAlgorithms
  /\ params = NoParams
  /\ text = <<>>
  /\ pc = "start"
  /\ encOut = NotCalled
  /\ decOut = NotCalled
  /\ wire = <<>>
  /\ wireKey = key
  /\ tampered = FALSE
  /\ cipherLog = {}
  /\ FileIdle
  /\ \E lt \in (IF impl = "useEncryption" THEN BOOLEAN ELSE {FALSE}) :
       page = [PageWithKey(key) EXCEPT !.liveTyping = lt]
  /\ tasks = {}

\* What no step of the hooks changes.
hooksIdle == <<impl, key, algorithm, params, encOut, wire, wireKey, tampered, decOut,
               fileEncOut, fileDecOut, restored>>

fileHookIdle == <<text, page>>

textHookIdle == <<file, encryptedData, hook>>

NoResults(h) ==
  [h EXCEPT !.hasEncryptionResult = FALSE, !.hasDecryptionResult = FALSE,
            !.error = <<>>, !.progress = 0]

\* handleFileChange: the selection replaces file and clears the rest; an
\* encrypted file is read, and the read goes on after the handler returned.
HandleFileChange ==
  /\ impl = "useFileEncryption"
  /\ \E newFile \in HookFiles \cup {NoFile} :
       LET reads == newFile # NoFile /\ LooksEncrypted(newFile)
       IN  /\ reads => MayStart
           /\ file' = newFile
           /\ encryptedData' = EmptyString
           /\ hook' = IF reads
                      THEN [NoResults(hook) EXCEPT !.isDecrypting = TRUE, !.progress = 10]
                      ELSE NoResults(hook)
           /\ tasks' = IF reads
                       THEN tasks \cup {Task("read", FileNotCalled, 0, {}, newFile)}
                       ELSE tasks
  /\ pc' = "changed"
  /\ UNCHANGED cipherLog
  /\ UNCHANGED hooksIdle
  /\ UNCHANGED fileHookIdle

\* readEncryptedFile(newFile) settles: then / catch / finally of handleFileChange.
ReadEncryptedFileSettles ==
  /\ impl = "useFileEncryption"
  /\ \E t \in TasksOf({"read"}) :
       /\ \/ /\ encryptedData' = readAsText(t.f)
             /\ hook' = [hook EXCEPT !.progress = 20, !.isDecrypting = FALSE]
          \/ /\ encryptedData' = encryptedData
             /\ hook' = [hook EXCEPT
                           !.error = <<"Failed to read encrypted file",
                                       "Error reading encrypted file">>,
                           !.isDecrypting = FALSE]
       /\ tasks' = tasks \ {t}
  /\ UNCHANGED <<file, pc, cipherLog>>
  /\ UNCHANGED hooksIdle
  /\ UNCHANGED fileHookIdle

\* handleEncryptedDataChange.
HandleEncryptedDataChange ==
  /\ impl = "useFileEncryption"
  /\ \E data \in PastedData : encryptedData' = data
  /\ file' = NoFile
  /\ hook' = NoResults(hook)
  /\ pc' = "changed"
  /\ UNCHANGED <<tasks, cipherLog>>
  /\ UNCHANGED hooksIdle
  /\ UNCHANGED fileHookIdle

\* browserEncrypt and browserDecrypt await importKey (crypto.subtle) once
\* their checks have passed and the algorithm is AES, and nothing else.
DispatchAwaits(t, k, a) ==
  a = "AES" /\ t # <<>> /\ k # <<>>

CallAwaits(r) ==
  /\ r.calls # <<>>
  /\ DispatchAwaits(r.calls[1].data, r.calls[1].key, r.calls[1].algorithm)

\* browserEncryptFile awaits the FileReader after its first progress value,
\* unless the file is too large, and browserEncrypt after the second.
EncryptFileStops(f, r) ==
  (IF f.size <= CHUNK_SIZE THEN {1} ELSE {})
  \cup (IF CallAwaits(r) THEN {2} ELSE {})

\* browserDecryptFile awaits browserDecrypt after its second progress value.
DecryptFileStops(r) ==
  IF CallAwaits(r) THEN {2} ELSE {}

\* (p) => { setProgress(p); }: the hook after the progress values n+1..m.
Reported(h, r, n, m) ==
  IF m > n THEN [h EXCEPT !.progress = r.progress[m]] ELSE h

\* handleEncryptFile after its await: the result, or catch; then finally.
EncryptFileEnd(h, r) ==
  IF r.ok
  THEN [h EXCEPT !.hasEncryptionResult = TRUE, !.hasDecryptionResult = FALSE,
                 !.isEncrypting = FALSE]
  ELSE [h EXCEPT !.error = <<"File encryption failed", r.err>>, !.progress = 0,
                 !.isEncrypting = FALSE]

\* A handler that keeps the encryption's result when a decryption succeeds.
DecryptFileEndKeeping(h, r) ==
  IF r.ok
  THEN [h EXCEPT !.hasDecryptionResult = TRUE, !.isDecrypting = FALSE]
  ELSE [h EXCEPT !.error = <<"File decryption failed", r.err>>, !.progress = 0,
                 !.isDecrypting = FALSE]

\* handleDecryptFile after its await.
DecryptFileEnd(h, r) ==
  IF r.ok
  THEN [h EXCEPT !.hasDecryptionResult = TRUE, !.hasEncryptionResult = FALSE,
                 !.isDecrypting = FALSE]
  ELSE [h EXCEPT !.error = <<"File decryption failed", r.err>>, !.progress = 0,
                 !.isDecrypting = FALSE]

\* A file operation of outcome r that has reported n progress values runs
\* on, from hook state h, to its next stop or to its end; it was task old.
RunFileOperation(kind, h, r, n, stops, old) ==
  LET later == {m \in stops : m > n}
      last == Len(r.progress)
  IN  IF later # {}
      THEN /\ old = {} => MayStart
           /\ hook' = Reported(h, r, n, MinOf(later))
           /\ tasks' = (tasks \ old) \cup {Task(kind, r, MinOf(later), stops, NoFile)}
           /\ UNCHANGED <<encryptedData, cipherLog>>
      ELSE /\ hook' = IF kind = "encrypt"
                      THEN EncryptFileEnd(Reported(h, r, n, last), r)
                      ELSE DecryptFileEnd(Reported(h, r, n, last), r)
           /\ tasks' = tasks \ old
           /\ encryptedData' = IF kind = "encrypt" /\ r.ok THEN r.envelope
                               ELSE encryptedData
           /\ cipherLog' = cipherLog \cup r.gcm

\* handleEncryptFile up to the first await that leaves the step.
HandleEncryptFileCall ==
  /\ impl = "useFileEncryption" /\ ~hook.isEncrypting
  /\ IF file = NoFile \/ key = <<>>
     THEN /\ hook' = [hook EXCEPT !.error = <<"File and key are required">>]
          /\ pc' = "rejected"
          /\ UNCHANGED <<tasks, encryptedData, cipherLog>>
     ELSE /\ \E ivFill \in HookFill :
               \E r \in browserEncryptFile(file, key, algorithm, params, ivFill) :
                 RunFileOperation("encrypt",
                                  [hook EXCEPT !.error = <<>>, !.isEncrypting = TRUE,
                                               !.progress = 0],
                                  r, 0, EncryptFileStops(file, r), {})
          /\ pc' = "called"
  /\ UNCHANGED file
  /\ UNCHANGED hooksIdle
  /\ UNCHANGED fileHookIdle

\* handleDecryptFile up to the first await that leaves the step.
HandleDecryptFileCall ==
  /\ impl = "useFileEncryption" /\ ~hook.isDecrypting
  /\ IF encryptedData = EmptyString \/ key = <<>>
     THEN /\ hook' = [hook EXCEPT !.error = <<"Encrypted data and key are required">>]
          /\ pc' = "rejected"
          /\ UNCHANGED <<tasks, encryptedData, cipherLog>>
     ELSE /\ LET r == browserDecryptFile(encryptedData, key, cipherLog)
             IN  RunFileOperation("decrypt",
                                  [hook EXCEPT !.error = <<>>, !.isDecrypting = TRUE,
                                               !.progress = 0],
                                  r, 0, DecryptFileStops(r), {})
          /\ pc' = "called"
  /\ UNCHANGED file
  /\ UNCHANGED hooksIdle
  /\ UNCHANGED fileHookIdle

\* What browserEncryptFile awaited is there: it goes on, and at its end
\* handleEncryptFile does.
HandleEncryptFileResume ==
  /\ impl = "useFileEncryption"
  /\ \E t \in TasksOf({"encrypt"}) :
       RunFileOperation("encrypt", hook, t.r, t.n, t.stops, {t})
  /\ UNCHANGED <<file, pc>>
  /\ UNCHANGED hooksIdle
  /\ UNCHANGED fileHookIdle

\* What browserDecryptFile awaited is there.
HandleDecryptFileResume ==
  /\ impl = "useFileEncryption"
  /\ \E t \in TasksOf({"decrypt"}) :
       RunFileOperation("decrypt", hook, t.r, t.n, t.stops, {t})
  /\ UNCHANGED <<file, pc>>
  /\ UNCHANGED hooksIdle
  /\ UNCHANGED fileHookIdle

\* reset of useFileEncryption.
ResetFile ==
  /\ impl = "useFileEncryption"
  /\ file' = NoFile
  /\ encryptedData' = EmptyString
  /\ hook' = NoResults(hook)
  /\ pc' = "reset"
  /\ UNCHANGED <<tasks, cipherLog>>
  /\ UNCHANGED hooksIdle
  /\ UNCHANGED fileHookIdle

\* setInput of useEncryption.
TypeInput ==
  /\ impl = "useEncryption"
  /\ \E t \in HookInputs : text' = t
  /\ UNCHANGED <<pc, tasks, cipherLog>>
  /\ UNCHANGED hooksIdle
  /\ UNCHANGED <<page, file, encryptedData, hook>>

TypingKinds == {"typing encryption", "typing decryption"}

\* The interval handleEncrypt and handleDecrypt set when liveTyping is off.
ProgressTimer ==
  IF page.liveTyping THEN {}
  ELSE {Task("progress interval", NotCalled, 0, {}, NoFile)}

\* The effect on a result newly set: with liveTyping an interval that types
\* it, without the result shown at once.  The effect's cleanup has cleared
\* the interval of the result before.
TypingOf(kind, r) ==
  IF page.liveTyping THEN {Task(kind, r, 0, {}, NoFile)} ELSE {}

Shown(p, r) ==
  IF p.liveTyping THEN p ELSE [p EXCEPT !.displayedOutput = r.result, !.progress = 100]

\* A handler whose catch branch returns without releasing the busy flag.
EncryptEndBusy(p, r) ==
  IF r.ok
  THEN Shown([p EXCEPT !.hasEncryptionResult = TRUE, !.encryptionResult = <<r.result>>,
                       !.hasDecryptionResult = FALSE, !.decryptionResult = <<>>,
                       !.isEncrypting = FALSE], r)
  ELSE [p EXCEPT !.error = <<"Encryption failed", r.err>>, !.progress = 0]

\* handleEncrypt after its await: the result, or catch; then finally.
EncryptEnd(p, r) ==
  IF r.ok
  THEN Shown([p EXCEPT !.hasEncryptionResult = TRUE, !.encryptionResult = <<r.result>>,
                       !.hasDecryptionResult = FALSE, !.decryptionResult = <<>>,
                       !.isEncrypting = FALSE], r)
  ELSE [p EXCEPT !.error = <<"Encryption failed", r.err>>, !.progress = 0,
                 !.isEncrypting = FALSE]

\* handleDecrypt after its await.
DecryptEnd(p, r) ==
  IF r.ok
  THEN Shown([p EXCEPT !.hasDecryptionResult = TRUE, !.decryptionResult = <<r.result>>,
                       !.hasEncryptionResult = FALSE, !.encryptionResult = <<>>,
                       !.isDecrypting = FALSE], r)
  ELSE [p EXCEPT !.error = <<"Decryption failed", r.err>>, !.progress = 0,
                 !.isDecrypting = FALSE]

\* A text operation of outcome r, started from page state p with the work
\* ts in flight, awaits crypto.subtle or comes to its end; the effects on
\* the results run at the end.
RunOperation(kind, p, r, ts, awaits) ==
  IF awaits
  THEN /\ page' = p
       /\ tasks' = ts \cup {Task(kind, r, 0, {}, NoFile)}
       /\ UNCHANGED cipherLog
  ELSE /\ page' = IF kind = "encrypt" THEN EncryptEnd(p, r) ELSE DecryptEnd(p, r)
       /\ tasks' = IF r.ok
                   THEN {t \in ts : t.kind \notin TypingKinds}
                        \cup TypingOf(IF kind = "encrypt" THEN "typing encryption"
                                      ELSE "typing decryption", r)
                   ELSE ts
       /\ cipherLog' = cipherLog \cup r.gcm

\* handleEncrypt up to the first await that leaves the step.
HandleEncryptCall ==
  /\ impl = "useEncryption" /\ ~page.isEncrypting /\ ~page.isDecrypting
  /\ IF text = <<>> \/ key = <<>>
     THEN /\ page' = [page EXCEPT !.error = <<"Input and key are required">>]
          /\ pc' = "rejected"
          /\ UNCHANGED <<tasks, cipherLog>>
     ELSE /\ \E ivFill \in HookFill :
               RunOperation("encrypt",
                            [page EXCEPT !.error = <<>>, !.isEncrypting = TRUE,
                                         !.progress = 0, !.displayedOutput = <<>>],
                            browserEncrypt(text, key, algorithm, params, ivFill),
                            tasks \cup ProgressTimer,
                            DispatchAwaits(text, key, algorithm))
          /\ pc' = "called"
  /\ UNCHANGED text
  /\ UNCHANGED hooksIdle
  /\ UNCHANGED textHookIdle

\* handleDecrypt up to the first await that leaves the step.
HandleDecryptCall ==
  /\ impl = "useEncryption" /\ ~page.isEncrypting /\ ~page.isDecrypting
  /\ IF text = <<>> \/ key = <<>>
     THEN /\ page' = [page EXCEPT !.error = <<"Input and key are required">>]
          /\ pc' = "rejected"
          /\ UNCHANGED <<tasks, cipherLog>>
     ELSE /\ RunOperation("decrypt",
                          [page EXCEPT !.error = <<>>, !.isDecrypting = TRUE,
                                       !.progress = 0, !.displayedOutput = <<>>],
                          browserDecrypt(text, key, algorithm, params, cipherLog),
                          tasks \cup ProgressTimer,
                          DispatchAwaits(text, key, algorithm))
          /\ pc' = "called"
  /\ UNCHANGED text
  /\ UNCHANGED hooksIdle
  /\ UNCHANGED textHookIdle

\* What browserEncrypt awaited is there: handleEncrypt goes on.
HandleEncryptResume ==
  /\ impl = "useEncryption"
  /\ \E t \in TasksOf({"encrypt"}) :
       RunOperation("encrypt", page, t.r, tasks \ {t}, FALSE)
  /\ UNCHANGED <<text, pc>>
  /\ UNCHANGED hooksIdle
  /\ UNCHANGED textHookIdle

\* What browserDecrypt awaited is there: handleDecrypt goes on.
HandleDecryptResume ==
  /\ impl = "useEncryption"
  /\ \E t \in TasksOf({"decrypt"}) :
       RunOperation("decrypt", page, t.r, tasks \ {t}, FALSE)
  /\ UNCHANGED <<text, pc>>
  /\ UNCHANGED hooksIdle
  /\ UNCHANGED textHookIdle

\* The callback of progressInterval: ten more, until 90 is reached.
ProgressTick ==
  /\ impl = "useEncryption"
  /\ \E t \in TasksOf({"progress interval"}) :
       IF page.progress >= 90
       THEN /\ tasks' = tasks \ {t}
            /\ UNCHANGED page
       ELSE /\ page' = [page EXCEPT !.progress = @ + 10]
            /\ UNCHANGED tasks
  /\ UNCHANGED <<text, pc, cipherLog>>
  /\ UNCHANGED hooksIdle
  /\ UNCHANGED textHookIdle

\* Math.min(100, Math.floor((currentIndex / result.length) * 100)); a
\* division by zero gives Infinity.
TypedShare(currentIndex, length) ==
  IF length = 0 THEN 100 ELSE Min(100, (currentIndex * 100) \div length)

\* The callback of a typing interval: one more character, or the end.
TypingTick ==
  /\ impl = "useEncryption"
  /\ \E t \in TasksOf(TypingKinds) :
       IF t.n <= Len(t.r.result)
       THEN /\ page' = [page EXCEPT !.displayedOutput = SubSeq(t.r.result, 1, t.n),
                                    !.progress = TypedShare(t.n + 1, Len(t.r.result))]
            /\ tasks' = (tasks \ {t}) \cup {[t EXCEPT !.n = @ + 1]}
       ELSE /\ page' = [page EXCEPT !.progress = 100]
            /\ tasks' = tasks \ {t}
  /\ UNCHANGED <<text, pc, cipherLog>>
  /\ UNCHANGED hooksIdle
  /\ UNCHANGED textHookIdle

\* reset of useEncryption; the results go, and with them the typing intervals.
Reset ==
  /\ impl = "useEncryption"
  /\ text' = <<>>
  /\ page' = [page EXCEPT !.displayedOutput = <<>>,
                          !.hasEncryptionResult = FALSE, !.encryptionResult = <<>>,
                          !.hasDecryptionResult = FALSE, !.decryptionResult = <<>>,
                          !.error = <<>>, !.progress = 0]
  /\ tasks' = tasks \ TasksOf(TypingKinds)
  /\ pc' = "reset"
  /\ UNCHANGED cipherLog
  /\ UNCHANGED hooksIdle
  /\ UNCHANGED textHookIdle

NextHooks ==
  \/ HandleFileChange
  \/ ReadEncryptedFileSettles
  \/ HandleEncryptedDataChange
  \/ HandleEncryptFileCall
  \/ HandleDecryptFileCall
  \/ HandleEncryptFileResume
  \/ HandleDecryptFileResume
  \/ ResetFile
  \/ TypeInput
  \/ HandleEncryptCall
  \/ HandleDecryptCall
  \/ HandleEncryptResume
  \/ HandleDecryptResume
  \/ ProgressTick
  \/ TypingTick
  \/ Reset

SpecHooks == InitHooks /\ [][NextHooks]_vars

\* What is in flight comes to its end: a promise settles, an interval fires.
FairHooks ==
  /\ WF_vars(ReadEncryptedFileSettles)
  /\ WF_vars(HandleEncryptFileResume)
  /\ WF_vars(HandleDecryptFileResume)
  /\ WF_vars(HandleEncryptResume)
  /\ WF_vars(HandleDecryptResume)
  /\ WF_vars(ProgressTick)
  /\ WF_vars(TypingTick)

SpecHooksFair == SpecHooks /\ FairHooks

(***************************************************************************)
(* Properties of the text dispatch.                                        *)
(***************************************************************************)
BrowserImpls == {"browser", "browser_r1"}

LegacyCiphers == {"DES", "3DES", "Rabbit", "RC4"}

\* A decrypt call was made on what the encrypt call returned, unaltered and
\* under the key of the encrypt call.
RoundTripDone ==
  pc = "decrypted" /\ encOut.ok /\ ~tampered /\ wireKey = key

EncryptGaveUp ==
  pc \in {"failed", "hung"}

\* C1: for AES and each legacy cipher, every non-empty text and non-empty
\* key: browserEncrypt returns, and browserDecrypt of what it returned, under
\* the same key, algorithm and params, returns a result equal to text.
\* (Stated for well-formed text and key only, the claim's plainest inputs.)
C1_RoundTripAesLegacy ==
  (impl \in BrowserImpls /\ algorithm \in {"AES"} \cup LegacyCiphers
     /\ text # <<>> /\ key # <<>> /\ IsWellFormed(text) /\ IsWellFormed(key))
  => /\ ~EncryptGaveUp
     /\ RoundTripDone => (decOut.ok /\ decOut.result = text)

\* C2: for every non-empty text and non-empty key of any length, OTP
\* encryption returns, and OTP decryption of its output under the same key
\* returns exactly text.  (Stated for well-formed text and key only.)
C2_RoundTripOtp ==
  (impl \in {"browser", "service"} /\ algorithm = "OTP" /\ text # <<>> /\ key # <<>>
     /\ IsWellFormed(text) /\ IsWellFormed(key))
  => /\ ~EncryptGaveUp
     /\ RoundTripDone => (decOut.ok /\ decOut.result = text)

AesDecryptDone ==
  pc = "decrypted" /\ encOut.ok /\ impl = "browser" /\ algorithm = "AES"

\* C4 as stated: AES browserDecrypt of a ciphertext with a bit changed behind
\* the 12-byte IV, or under a key different from the encryption key, ends in
\* an error and returns no result.
C4_TamperOrOtherKeyFails ==
  (AesDecryptDone /\ (tampered \/ wireKey # key))
  => (~decOut.ok /\ decOut.result = <<>>)

\* C4, amended: AES browserDecrypt of a ciphertext with a bit changed behind
\* the 12-byte IV, or under a key whose UTF-8 encoding differs from that of
\* the encryption key, ends in an error and returns no result.
C4_TamperOrOtherKeyBytesFails ==
  (AesDecryptDone
     /\ (tampered \/ stringToArrayBuffer(wireKey) # stringToArrayBuffer(key)))
  => (~decOut.ok /\ decOut.result = <<>>)

C4_Witness ==
  AesDecryptDone /\ tampered /\ ~decOut.ok

NotImplementedFor(r) ==
  /\ ~r.ok
  /\ r.err \in {"encryption is not yet implemented client-side",
                "decryption is not yet implemented client-side"}
  /\ r.names = algorithm

\* C5: encrypting or decrypting with RSA, ECC, ChaCha20 or Blowfish always
\* fails with a not-implemented error naming the algorithm, and never returns
\* a result.
C5_NotImplemented ==
  (algorithm \in Unimplemented /\ text # <<>> /\ key # <<>>)
  => /\ encOut # NotCalled => NotImplementedFor(encOut)
     /\ decOut # NotCalled => NotImplementedFor(decOut)

\* C6: key derivation is a function of its inputs, so the key browserDecrypt
\* derives from a passphrase equals the key browserEncrypt derived from the
\* same passphrase; derivations under different salts give different keys.
C6_SameKeyDerived ==
  /\ (impl \in BrowserImpls /\ algorithm = "AES" /\ RoundTripDone)
     => decOut.cryptoKey = encOut.cryptoKey
  /\ \A f1 \in RandomFill, f2 \in RandomFill :
       f1 # f2 => importKey_r1(key, f1) # importKey_r1(key, f2)

\* C7: the AES result of browserEncrypt decodes to 12 + (UTF-8 length of the
\* plaintext) + 16 bytes, and the IV browserEncrypt prepends has the 12 bytes
\* browserDecrypt splits off.
C7_AesWireFormat ==
  (impl \in BrowserImpls /\ algorithm = "AES" /\ encOut.ok)
  => /\ atob(encOut.result).ok
     /\ Len(atob(encOut.result).v) = 12 + Len(stringToArrayBuffer(text)) + 16
     /\ Len(atob(encOut.params[1].iv[1]).v) = IV_SPLIT
     /\ IV_SPLIT = 12

(***************************************************************************)
(* Properties of the file packaging.                                       *)
(***************************************************************************)
CurrentFileImpls == {"browser", "hook"}

\* C3 as stated: for a file of 0 bytes up to the ceiling and a non-empty
\* key, decrypting the envelope browserEncryptFile produced and converting
\* the result with base64ToFile gives the original bytes, name and MIME type.
\* (Stated for the files that have a name and were encrypted.)
C3_FileRoundTrip ==
  (impl \in CurrentFileImpls /\ fileEncOut.ok /\ file.size <= CHUNK_SIZE /\ key # <<>>
     /\ file.name # "")
  => /\ pc = "decrypted" => fileDecOut.ok
     /\ pc = "restored" => /\ restored.ok
                           /\ restored.v.bytes = file.bytes
                           /\ restored.v.name = file.name
                           /\ restored.v.type = file.type

\* C3, amended: for a file of 1 byte up to the ceiling with a non-empty name
\* and a non-empty key, whenever browserEncryptFile returns an envelope (it
\* always does for AES), decrypting it and converting the result with
\* base64ToFile gives the original bytes and name, and the original MIME
\* type or application/octet-stream where that was empty; a file of 0 bytes
\* is not encrypted, and an envelope of a file without a name not decrypted.
C3_FileRoundTripAmended ==
  /\ (impl \in CurrentFileImpls /\ fileEncOut.ok)
     => /\ file.size >= 1 /\ file.size <= CHUNK_SIZE /\ key # <<>>
        /\ pc = "decrypted" => (fileDecOut.ok <=> file.name # "")
        /\ pc = "restored" =>
             /\ restored.ok
             /\ restored.v.bytes = file.bytes
             /\ restored.v.name = file.name
             /\ restored.v.type = (IF file.type = "" THEN DefaultType ELSE file.type)
  /\ (impl \in CurrentFileImpls /\ pc = "failed" /\ fileEncOut.err # "not called")
     => ~(algorithm = "AES" /\ file.size >= 1 /\ file.size <= CHUNK_SIZE /\ key # <<>>)

C3_Witness ==
  /\ impl \in CurrentFileImpls /\ pc = "restored" /\ fileEncOut.ok
  /\ file.size = CHUNK_SIZE /\ file.type = ""
  /\ restored.v.bytes = file.bytes

TooLargeErrors ==
  {"File too large",
   "Large file encryption is not yet implemented in this browser version"}

\* C8: file encryption rejects with a file-too-large error every file above
\* the ceiling of 5*1024*1024 bytes and accepts a file of exactly that size;
\* no file above the ceiling is ever encrypted.
C8_SizeCeiling ==
  (fileEncOut.err # "not called" /\ key # <<>> /\ IsWellFormed(key) /\ algorithm = "AES")
  => /\ file.size > 5 * 1024 * 1024
          => (~fileEncOut.ok /\ fileEncOut.err \in TooLargeErrors)
     /\ file.size = 5 * 1024 * 1024 => fileEncOut.ok

\* The metadata of the envelope the decryption was given.
EnvelopeMetadata ==
  JSONparse(CleanData(encryptedData)).v.metadata[1]

\* C9: file decryption invokes the cipher dispatch with the algorithm and
\* params recorded in the envelope's metadata, whatever algorithm and params
\* the caller (the hook) holds, and reports those of the metadata.
C9_MetadataDrivesDispatch ==
  (impl \in {"browser", "hook", "browser_r1"} /\ fileDecOut.calls # <<>>)
  => /\ Len(fileDecOut.calls) = 1
     /\ fileDecOut.calls[1].algorithm = OrUndefinedName(EnvelopeMetadata.algorithm)
     /\ fileDecOut.calls[1].params = OrNoParams(EnvelopeMetadata.params)
     /\ fileDecOut.ok => /\ fileDecOut.algorithm = EnvelopeMetadata.algorithm
                         /\ fileDecOut.params = EnvelopeMetadata.params

C9_Witness ==
  /\ impl = "hook" /\ pc = "decrypted" /\ fileDecOut.ok /\ fileEncOut.ok
  /\ <<algorithm>> # EnvelopeMetadata.algorithm
  /\ <<params>> # EnvelopeMetadata.params

\* Not valid JSON, or a parsed value without metadata or without data.
IsMalformed(t) ==
  \/ ~JSONparse(t).ok
  \/ JSONparse(t).v.metadata = <<>>
  \/ JSONparse(t).v.data = <<>>

\* C10: for data that is not valid JSON or whose parsed value lacks metadata
\* or data, file decryption fails with a malformed-envelope error, without
\* invoking the cipher dispatch.  (Stated for data without a byte-order
\* mark, and with any error taken for a malformed-envelope error.)
C10_MalformedEnvelope ==
  (fileDecOut.err # "not called" /\ key # <<>> /\ encryptedData # EmptyString
     /\ encryptedData.lead = "none" /\ IsMalformed(encryptedData))
  => /\ ~fileDecOut.ok
     /\ fileDecOut.calls = <<>>

\* The envelope parses to a value that has metadata and data, and the
\* metadata lacks originalFileName or lacks algorithm.
LacksRequiredMetadata(t) ==
  /\ JSONparse(CleanData(t)).ok
  /\ JSONparse(CleanData(t)).v.type = "object"
  /\ ~Falsy(JSONparse(CleanData(t)).v.metadata)
  /\ ~Falsy(JSONparse(CleanData(t)).v.data)
  /\ \/ JSONparse(CleanData(t)).v.metadata[1].originalFileName = <<>>
     \/ JSONparse(CleanData(t)).v.metadata[1].algorithm = <<>>

\* C11: for an envelope whose metadata lacks originalFileName or lacks
\* algorithm, browserDecryptFile (called directly or by handleDecryptFile)
\* fails with the missing-metadata error and has not invoked the cipher
\* dispatch.
C11_MissingMetadata ==
  (impl \in CurrentFileImpls /\ fileDecOut.err # "not called" /\ key # <<>>
     /\ LacksRequiredMetadata(encryptedData))
  => /\ ~fileDecOut.ok
     /\ fileDecOut.err = "Missing required metadata in encrypted file"
     /\ fileDecOut.calls = <<>>

C11_Witness ==
  /\ impl \in CurrentFileImpls /\ pc = "decrypted" /\ key # <<>>
  /\ LacksRequiredMetadata(encryptedData)
  /\ EnvelopeMetadata.originalFileName # <<>>
  /\ fileDecOut.err = "Missing required metadata in encrypted file"

\* C12: file decryption (browserDecryptFile, called directly or by the
\* hook) returns a result only if the recovered text decodes, as Base64, to
\* at least one byte; and downloadDecryptedFile then downloads the File
\* made of those bytes, never the undecodable text itself.
C12_CorruptedPayload ==
  (impl \in CurrentFileImpls /\ fileDecOut.ok)
  => /\ atob(fileDecOut.result).ok
     /\ atob(fileDecOut.result).v # <<>>
     /\ pc = "downloaded" => restored.v.href = "blob"

\* A call that ended by throwing an error (and did end).
FailedWithError(r) ==
  ~r.ok /\ r.err \notin {"not called", "does not terminate"}

\* C13: with algorithm OTP, encrypt and decrypt of the dispatch and
\* browserEncrypt and browserDecrypt fail with an error whenever the text
\* they are given is empty or the key is empty.
C13_OtpEmptyInput ==
  (impl \in {"browser", "service"} /\ algorithm = "OTP")
  => /\ (encOut.err # "not called" /\ (text = <<>> \/ key = <<>>))
          => FailedWithError(encOut)
     /\ (decOut.err # "not called" /\ encOut.err = "not called"
          /\ (text = <<>> \/ wireKey = <<>>))
          => FailedWithError(decOut)

\* text[i] XOR key[i mod len(key)], for each character of text.
RawXor ==
  XorChars(text, ExtendKey(key, key, Len(text)))

\* C14: for non-empty text and key, the result of OTP encryption by
\* browserEncrypt is the Base64 encoding of the bytes text[i] XOR
\* key[i mod len(key)], one byte per character of text.  (Stated for the
\* texts and keys whose XOR values all fit a byte.)
C14_OtpRawBytes ==
  (impl = "browser" /\ algorithm = "OTP" /\ text # <<>> /\ key # <<>>
     /\ encOut.err # "not called" /\ \A i \in 1..Len(text) : RawXor[i] <= 255)
  => /\ encOut.ok
     /\ atob(encOut.result).ok
     /\ atob(encOut.result).v = RawXor

(***************************************************************************)
(* Properties of the key strength and the recommended key size.            *)
(***************************************************************************)
\* s is round(40 * min(len/16, 1) + 60 * min(uniqueChars/64, 1)) for key k,
\* halves rounded up: s - 1/2 <= the sum < s + 1/2, in 16ths.
IsRoundedScore(s, k) ==
  LET sum16 == 40 * Min(Len(k), 16) + 15 * Min(UniqueChars(k), 64)
  IN  16 * s - 8 <= sum16 /\ sum16 < 16 * s + 8

IsStrengthOf(s, k) ==
  /\ IsRoundedScore(s, k)
  /\ s \in 0..100
  /\ s = 0 => k = <<>>
  /\ (Len(k) >= 16 /\ UniqueChars(k) >= 64) => s = 100

\* C15: for every key, measureKeyStrength and browserMeasureKeyStrength
\* return round(40*min(len/16,1) + 60*min(uniqueChars/64,1)), an integer in
\* 0..100 that is 0 only for the empty key and 100 when the length is at
\* least 16 and the unique characters at least 64.
C15_KeyStrengthFormula ==
  impl = "page"
  => /\ key # <<>> => IsStrengthOf(page.keyStrength, key)
     /\ IsStrengthOf(browserMeasureKeyStrength(key), key)
     /\ page.measured # <<>> => IsStrengthOf(page.measured[1], key)

C15_Witness ==
  /\ impl = "page" /\ pc = "key set"
  /\ Len(key) >= 16 /\ UniqueChars(key) >= 64
  /\ page.keyStrength = 100 /\ page.measured = <<100>>

\* The key was extended by a character it did not hold.
NovelAppended ==
  /\ impl = "page"
  /\ Len(key') = Len(key) + 1
  /\ SubSeq(key', 1, Len(key)) = key
  /\ \A i \in 1..Len(key) : key[i] # key'[Len(key')]

\* C16 as stated: the key strength strictly increases whenever a character
\* not yet present is appended to a key that is below the caps (length
\* below 16 or fewer than 64 unique characters).
C16_StrictlyIncreasing ==
  [][(NovelAppended /\ (Len(key) < 16 \/ UniqueChars(key) < 64))
       => page'.keyStrength > page.keyStrength]_vars

\* C16, amended: the key strength strictly increases whenever a character
\* not yet present is appended to a key of length below 16; for a longer key
\* with fewer than 64 unique characters it never decreases, and stays the
\* same exactly when the key holds 8, 24, 40 or 56 unique characters.
C16_IncreasingBelowLengthCap ==
  [][NovelAppended
       => /\ Len(key) < 16 => page'.keyStrength > page.keyStrength
          /\ (Len(key) >= 16 /\ UniqueChars(key) < 64)
               => /\ page'.keyStrength >= page.keyStrength
                  /\ page'.keyStrength = page.keyStrength
                       <=> UniqueChars(key) \in {8, 24, 40, 56}]_vars

C16_Witness ==
  /\ impl = "page" /\ pc = "key set"
  /\ Len(key) = 16 /\ UniqueChars(key) = 16 /\ key[16] = NovelChar(SubSeq(key, 1, 15))
  /\ page.keyStrength > KeyStrengthEffect(SubSeq(key, 1, 15))

\* C17: recommendKeySize returns the recommended key size in bits: AES 256,
\* DES 64, TripleDES 192, Rabbit 128, RC4 256, OTP 512, RSA 2048, ECC 256,
\* Blowfish 448, ChaCha20 256.
C17_RecommendedBits ==
  (impl = "page" /\ page.recommended # <<>>)
  => page.recommended[1] =
       (CASE algorithm \in {"AES", "RC4", "ECC", "ChaCha20"} -> 256
          [] algorithm = "DES" -> 64
          [] algorithm = "3DES" -> 192
          [] algorithm = "Rabbit" -> 128
          [] algorithm = "OTP" -> 512
          [] algorithm = "RSA" -> 2048
          [] algorithm = "Blowfish" -> 448)

(***************************************************************************)
(* Properties of the params a result carries.                              *)
(***************************************************************************)
\* mode CBC, padding PKCS7, iterations 1000, keySize 256 bits (in 32-bit
\* words, as CryptoJS counts it).
DocumentedDefaults ==
  [mode |-> <<"CBC">>, padding |-> <<"PKCS7">>, iterations |-> <<1000>>,
   keySize |-> <<256 \div 32>>]

\* Result r carries params in which every field with a documented default
\* holds the caller's value, or the default where the caller set none.
CarriesDefaults(r) ==
  /\ r.params # <<>>
  /\ \A f \in DOMAIN DocumentedDefaults :
       r.params[1][f] = (IF params[f] = <<>> THEN DocumentedDefaults[f] ELSE params[f])

\* C18: the params returned by encrypt and decrypt of the service, and by
\* the AES branch of browserEncrypt and browserDecrypt, hold the documented
\* default in every field the caller left unset and the caller's value in
\* every field the caller set.
C18_ParamsDefaults ==
  (impl = "service" \/ (impl = "browser" /\ algorithm = "AES"))
  => /\ encOut.ok => CarriesDefaults(encOut)
     /\ decOut.ok => CarriesDefaults(decOut)

BlockCiphers == {"AES", "DES", "3DES"}

\* The iv the returned params report, <<>> when they report none.
ReportedIV ==
  IF encOut.params = <<>> THEN <<>> ELSE encOut.params[1].iv

\* C19: for a block-cipher encryption, the iv in the returned params is the
\* caller's params.iv when one was given, and that is the IV the encryption
\* used; when none was given, the params report the IV that was generated
\* (for AES of the browser: the first 12 bytes of the decoded result).
C19_ReportedIvIsUsed ==
  (impl \in {"browser", "service"} /\ algorithm \in BlockCiphers /\ encOut.ok
     /\ (impl = "browser" => algorithm = "AES"))
  => /\ params.iv # <<>>
          => /\ ReportedIV = params.iv
             /\ impl = "browser" => \A e \in encOut.gcm : e.iv = atob(params.iv[1]).v
             /\ impl = "service" => \A e \in encOut.gcm : e.ivFrom = "params.iv"
     /\ params.iv = <<>>
          => /\ ReportedIV # <<>>
             /\ impl = "browser"
                  => /\ \A e \in encOut.gcm : e.iv = atob(ReportedIV[1]).v
                     /\ SubSeq(atob(encOut.result).v, 1, 12) = atob(ReportedIV[1]).v

(***************************************************************************)
(* Properties of the hooks.                                                *)
(***************************************************************************)
\* C20: whenever handleEncrypt or handleDecrypt of useEncryption ends in
\* failure, error is set and the hook exposes no encryptionResult and no
\* decryptionResult together with that error.
C20_NoResultWithError ==
  (impl = "hook" /\ page.error # <<>>)
  => /\ ~page.hasEncryptionResult
     /\ ~page.hasDecryptionResult

(***************************************************************************)
(* Properties of the progress a file operation reports.                    *)
(***************************************************************************)
EncryptMilestones == {10, 40, 70, 100}

DecryptMilestones == {10, 30, 70, 100}

\* The values are milestones, lie in 0..100 and strictly increase.
ReportsMilestones(progress, milestones) ==
  /\ \A i \in 1..Len(progress) : progress[i] \in milestones /\ progress[i] \in 0..100
  /\ \A i \in 1..(Len(progress) - 1) : progress[i] < progress[i + 1]

\* C21: during one file operation the progress callback is invoked only
\* with the fixed milestones (10, 40, 70, 100 for browserEncryptFile; 10, 30,
\* 70, 100 for browserDecryptFile), every value lies in 0..100, and the
\* values are reported in strictly increasing order.
C21_ProgressMilestones ==
  impl \in CurrentFileImpls
  => /\ ReportsMilestones(fileEncOut.progress, EncryptMilestones)
     /\ ReportsMilestones(fileDecOut.progress, DecryptMilestones)

\* A file went through both operations and each reported all its milestones.
C21_Witness ==
  /\ impl \in CurrentFileImpls
  /\ fileEncOut.ok /\ fileEncOut.progress = <<10, 40, 70, 100>>
  /\ fileDecOut.ok /\ fileDecOut.progress = <<10, 30, 70, 100>>

\* C29: browserEncryptFile and browserDecryptFile report progress 100 only
\* for an operation that then returns a result: no operation that ends in an
\* error has reported 100 to its progress callback.
C29_HundredOnlyOnSuccess ==
  impl \in CurrentFileImpls
  => /\ (fileEncOut.err # "not called" /\ ~fileEncOut.ok)
          => \A i \in 1..Len(fileEncOut.progress) : fileEncOut.progress[i] # 100
     /\ (fileDecOut.err # "not called" /\ ~fileDecOut.ok)
          => \A i \in 1..Len(fileDecOut.progress) : fileDecOut.progress[i] # 100

(***************************************************************************)
(* Termination of the one-time pad.                                        *)
(***************************************************************************)
\* C22: every call of encrypt, decrypt, browserEncrypt or browserDecrypt with
\* algorithm OTP terminates, with a result or an error, for every text and
\* every key, the empty key with a non-empty text included.
C22_OtpTerminates ==
  (impl \in {"browser", "browser_r1", "service"} /\ algorithm = "OTP")
  => /\ pc # "hung"
     /\ encOut.err # "does not terminate"
     /\ decOut.err # "does not terminate"

(***************************************************************************)
(* Properties of the hooks' asynchronous work.                             *)
(***************************************************************************)
EncryptedFiles ==
  {f \in HookFiles : LooksEncrypted(f)}

\* C23: in useFileEncryption, a file read started by an earlier
\* handleFileChange never overwrites encryptedData: whenever encryptedData
\* holds the content read from a file, that file is the currently selected
\* file, in whatever order the pending reads complete.
C23_ReadIsOfSelectedFile ==
  (impl = "useFileEncryption"
   /\ \E f \in EncryptedFiles : encryptedData = readAsText(f))
  => (file # NoFile /\ encryptedData = readAsText(file))

\* C24: after reset(), in either hook, encryptionResult and decryptionResult
\* stay null, error stays null and progress stays 0 until the user starts a
\* new operation, even when an encrypt or decrypt started before the reset
\* completes after it.
C24_ResetStays ==
  pc = "reset"
  => /\ impl = "useFileEncryption"
          => /\ ~hook.hasEncryptionResult /\ ~hook.hasDecryptionResult
             /\ hook.error = <<>> /\ hook.progress = 0
     /\ impl = "useEncryption"
          => /\ ~page.hasEncryptionResult /\ ~page.hasDecryptionResult
             /\ page.error = <<>> /\ page.progress = 0

\* The last operation of useEncryption failed, and none was started since.
LastFailed ==
  /\ page.error # <<>>
  /\ page.error[1] \in {"Encryption failed", "Decryption failed"}

\* The last operation of useEncryption succeeded, and nothing was done since.
LastSucceeded ==
  /\ pc = "called"
  /\ page.hasEncryptionResult \/ page.hasDecryptionResult
  /\ ~page.isEncrypting /\ ~page.isDecrypting
  /\ page.error = <<>>

\* C25: in useEncryption with liveTyping off, after handleEncrypt or
\* handleDecrypt fails progress is 0 and stays 0 until the next operation
\* starts, and after it succeeds progress is 100 and stays 100: the
\* progress interval of an operation changes nothing once it has completed.
C25_ProgressSettled ==
  (impl = "useEncryption" /\ ~page.liveTyping)
  => /\ LastFailed => page.progress = 0
     /\ LastSucceeded => page.progress = 100

\* C26: in useFileEncryption, isDecrypting is true in every state in which
\* a handleDecryptFile call is in flight, and isEncrypting in every state in
\* which a handleEncryptFile call is in flight, however they interleave with
\* handleFileChange and its file read.
C26_BusyWhileInFlight ==
  impl = "useFileEncryption"
  => /\ TasksOf({"decrypt"}) # {} => hook.isDecrypting
     /\ TasksOf({"encrypt"}) # {} => hook.isEncrypting

IsEncrypting ==
  IF impl = "useFileEncryption" THEN hook.isEncrypting ELSE page.isEncrypting

IsDecrypting ==
  IF impl = "useFileEncryption" THEN hook.isDecrypting ELSE page.isDecrypting

\* A handler call that the missing-input check turns away.
RejectedCall ==
  /\ pc' = "rejected"
  /\ \/ HandleEncryptFileCall
     \/ HandleDecryptFileCall
     \/ HandleEncryptCall
     \/ HandleDecryptCall

\* C27: every handleEncryptFile / handleDecryptFile / handleEncrypt /
\* handleDecrypt call whose operation settles sets isEncrypting /
\* isDecrypting back to false, on success and on failure: a flag is set only
\* while something that sets it is in flight, and is eventually false.  A
\* call the missing-input check rejects sets error and changes neither the
\* busy flags, the progress nor the results.
C27_BusyReleased ==
  /\ [](TasksOf({"encrypt"}) = {} => ~IsEncrypting)
  /\ [](TasksOf({"decrypt", "read"}) = {} => ~IsDecrypting)
  /\ (TasksOf({"encrypt"}) # {}) ~> ~IsEncrypting
  /\ (TasksOf({"decrypt"}) # {}) ~> ~IsDecrypting
  /\ [][RejectedCall
          => /\ tasks' = tasks
             /\ impl = "useFileEncryption"
                  => /\ hook'.error # <<>>
                     /\ hook' = [hook EXCEPT !.error = hook'.error]
             /\ impl = "useEncryption"
                  => /\ page'.error # <<>>
                     /\ page' = [page EXCEPT !.error = page'.error]]_vars

\* An encryption of useEncryption has failed and its busy flag is released.
C27_Witness ==
  /\ impl = "useEncryption"
  /\ page.error # <<>> /\ page.error[1] = "Encryption failed"
  /\ ~page.isEncrypting
  /\ TasksOf({"encrypt"}) = {}

\* C28: in every reachable state of useFileEncryption and of useEncryption,
\* encryptionResult and decryptionResult are not both non-null, however the
\* encrypt handler, the decrypt handler, the input-change handlers and reset
\* interleave.
C28_OneResult ==
  /\ ~(hook.hasEncryptionResult /\ hook.hasDecryptionResult)
  /\ ~(page.hasEncryptionResult /\ page.hasDecryptionResult)
  /\ ~(page.encryptionResult # <<>> /\ page.decryptionResult # <<>>)

\* A decryption's result has replaced the result of the encryption whose
\* envelope it decrypted, while another encryption is in flight.
C28_Witness ==
  /\ impl = "useFileEncryption"
  /\ hook.hasDecryptionResult /\ ~hook.hasEncryptionResult
  /\ \E t \in TasksOf({"encrypt"}) : t.r.ok

IsPrefixOf(s, opt) ==
  /\ opt # <<>>
  /\ Len(s) <= Len(opt[1])
  /\ s = SubSeq(opt[1], 1, Len(s))

\* displayedOutput is a prefix of the result of the current result.
ShowsPrefix ==
  \/ page.displayedOutput = <<>>
  \/ IsPrefixOf(page.displayedOutput, page.encryptionResult)
  \/ IsPrefixOf(page.displayedOutput, page.decryptionResult)

\* displayedOutput is the whole result, and progress is 100.
ShowsAll ==
  /\ page.progress = 100
  /\ \/ page.encryptionResult = <<page.displayedOutput>>
     \/ page.decryptionResult = <<page.displayedOutput>>

\* A further operation or reset of useEncryption.
FurtherOperation ==
  HandleEncryptCall \/ HandleDecryptCall \/ Reset

\* C30: in useEncryption with liveTyping on, displayedOutput is at every
\* moment a prefix of the result of the current encryptionResult or
\* decryptionResult, and after a successful operation, if no further
\* operation or reset occurs, displayedOutput eventually equals the full
\* result and progress eventually equals 100.
C30_LiveTyping ==
  /\ []((impl = "useEncryption" /\ page.liveTyping) => ShowsPrefix)
  /\ \/ []<><<FurtherOperation>>_vars
     \/ (impl = "useEncryption" /\ page.liveTyping /\ LastSucceeded)
          ~> (ShowsAll \/ ~LastSucceeded)

====
